---------------------------- MODULE Spec2Model ----------------------------
(***************************************************************************)
(* The Bluetooth thermal-printer service of rajstore                       *)
(* (utils/bluetoothPrinter.ts): the connection manager, the chunked        *)
(* transport and the two print operations, together with the Web Bluetooth *)
(* peripherals they talk to.                                               *)
(*                                                                         *)
(* JavaScript runs one handler at a time and yields only at an `await`.    *)
(* Every action below is therefore the resolution (or rejection) of one    *)
(* awaited promise followed by all the synchronous code up to the next     *)
(* await, or the synchronous start of a call.                              *)
(***************************************************************************)
EXTENDS Integers, Sequences, FiniteSets

(***************************************************************************)
(* Program constants.                                                      *)
(***************************************************************************)
ESC == 27
GS == 29
\* const chunkSize = 20 in sendData
chunkSize == 20
\* char.repeat(32) in separator, totalWidth = 32 in formatLine
totalWidth == 32

(***************************************************************************)
(* The peripherals in radio range.  A peripheral is described by what the  *)
(* Web Bluetooth API shows of it: whether it advertises the printer        *)
(* service (and so appears in the filtered chooser), whether its `gatt`    *)
(* attribute is available, and its services and their characteristics in   *)
(* enumeration order, restricted to the services the page asked access to. *)
(***************************************************************************)
Null == "null"

Devices == {"P1", "P2", "P3", "P4"}

PrinterService == "000018f0"
AltService == "49535343"
PrinterCharacteristic == "00002af1"

Profile(d) ==
    CASE d = "P1" ->
           \* a standard printer
           [advertises |-> TRUE, gatt |-> TRUE,
            services |-> << [uuid |-> PrinterService,
                             chars |-> << [uuid |-> "00002af0", write |-> FALSE, writeWithoutResponse |-> FALSE],
                                          [uuid |-> PrinterCharacteristic, write |-> TRUE, writeWithoutResponse |-> FALSE] >>] >>]
      [] d = "P2" ->
           \* a printer that advertises the service but not the characteristic
           [advertises |-> TRUE, gatt |-> TRUE,
            services |-> << [uuid |-> PrinterService,
                             chars |-> << [uuid |-> "00002af0", write |-> FALSE, writeWithoutResponse |-> FALSE] >>],
                            [uuid |-> AltService,
                             chars |-> << [uuid |-> "49535343-1e4d", write |-> FALSE, writeWithoutResponse |-> FALSE],
                                          [uuid |-> "49535343-8841", write |-> FALSE, writeWithoutResponse |-> TRUE],
                                          [uuid |-> "49535343-aca3", write |-> TRUE, writeWithoutResponse |-> FALSE] >>] >>]
      [] d = "P3" ->
           \* a peripheral that is no printer: nothing writable
           [advertises |-> FALSE, gatt |-> TRUE,
            services |-> << [uuid |-> AltService,
                             chars |-> << [uuid |-> "49535343-1e4d", write |-> FALSE, writeWithoutResponse |-> FALSE] >>] >>]
      [] OTHER ->
           \* "P4": a device the page may not use GATT on
           [advertises |-> TRUE, gatt |-> FALSE, services |-> << >>]

\* A characteristic handle: the device, the service and the position in it.
NullChar == [dev |-> Null, svc |-> 0, idx |-> 0]
Char(d, s, i) == [dev |-> d, svc |-> s, idx |-> i]
CharProps(c) == Profile(c.dev).services[c.svc].chars[c.idx]

\* The devices that can hold a GATT link.
GattDevices == {d \in Devices : Profile(d).gatt}

VARIABLES
    supported,       \* 'bluetooth' in navigator
    device,          \* this.device
    characteristic,  \* this.characteristic
    connected,       \* this.connected
    link,            \* device.gatt.connected, per peripheral
    listener,        \* peripherals carrying the service's gattserverdisconnected listener
    conn,            \* the connect() call in flight, or the one that just returned
    jobs,            \* per print operation, its call in flight or the one that just returned
    last,            \* the last step taken: its operation and the Web Bluetooth calls it made
    receipt,         \* a billData and the `commands` array printBill builds for it
    forms,           \* per browser session, the state of its CreateBill component
    kv,              \* the key-value store behind the request handlers
    reqs             \* the requests the server is handling, and their responses

\* The billing side of the application, and the printer side.
shop == <<forms, kv, reqs>>
printer == <<supported, device, characteristic, connected, link, listener, conn, jobs, last, receipt>>

vars == <<supported, device, characteristic, connected, link, listener, conn, jobs, last, receipt,
          forms, kv, reqs>>


(***************************************************************************)
(* Helpers.                                                                *)
(***************************************************************************)
Min(a, b) == IF a < b THEN a ELSE b

\* What one step records about itself: the operation it belongs to and the
\* Web Bluetooth calls it made, in order.
Step(op, calls) == [op |-> op, calls |-> calls]

\* isSupported(): 'bluetooth' in navigator
isSupported == supported

\* isConnected(): this.connected && this.characteristic !== null
isConnected == connected /\ characteristic # NullChar

\* getDeviceName(): this.device?.name || null  (a peripheral is named by its id)
getDeviceName == IF device # Null THEN device ELSE Null

\* The state of the connection as the callers see it.
connState == <<device, characteristic, connected>>

\* No print call: the record of a print operation before its first call.
NoJob ==
    [pc |-> "unused", data |-> << >>, i |-> 0, writes |-> << >>,
     result |-> "none", stable |-> TRUE, wasConnected |-> FALSE]

\* A print call that has not returned yet.
InFlight(j) == j.pc \in {"writeValue", "setTimeout"}

\* A call that has returned is remembered until the next step of any handler.
Rest(js) == [k \in DOMAIN js |-> IF InFlight(js[k]) THEN js[k] ELSE NoJob]

\* Print calls in flight note when the connection state changes under them.
Unstable(js) ==
    [k \in DOMAIN js |->
        IF InFlight(js[k]) THEN [js[k] EXCEPT !.stable = FALSE] ELSE js[k]]

Observed == jobs' = IF connState' # connState THEN Unstable(Rest(jobs)) ELSE Rest(jobs)

(***************************************************************************)
(* connect()                                                               *)
(***************************************************************************)
NoConnect ==
    [pc |-> "idle", server |-> Null, svc |-> 0, result |-> "none",
     failedAt |-> "none", cancelled |-> FALSE, chosen |-> FALSE,
     unfiltered |-> FALSE, path |-> "none", stored |-> Null]

\* The call returns or throws.
Return(c, r) == [c EXCEPT !.pc = "idle", !.result = r]

\* A call that has returned is remembered until the next step of any handler.
Settled(c) == IF c.pc = "idle" THEN NoConnect ELSE c

\* The first service (by UUID) of a device, as getPrimaryService finds it; 0 if none.
ServiceIndex(d, uuid) ==
    LET S == Profile(d).services
        hits == {s \in 1..Len(S) : S[s].uuid = uuid}
    IN IF hits = {} THEN 0 ELSE CHOOSE s \in hits : \A t \in hits : s <= t

\* The characteristic (by UUID) of a service, as getCharacteristic finds it; 0 if none.
CharacteristicIndex(d, s, uuid) ==
    LET C == Profile(d).services[s].chars
        hits == {i \in 1..Len(C) : C[i].uuid = uuid}
    IN IF hits = {} THEN 0 ELSE CHOOSE i \in hits : \A k \in hits : i <= k

\* The inner loop of the fallback: the first characteristic of service s with
\* properties.write || properties.writeWithoutResponse; 0 if none.
FirstWritableIn(d, s) ==
    LET C == Profile(d).services[s].chars
        hits == {i \in 1..Len(C) : C[i].write \/ C[i].writeWithoutResponse}
    IN IF hits = {} THEN 0 ELSE CHOOSE i \in hits : \A k \in hits : i <= k

\* The catch block of connect() up to its first await: the scoped attempt threw
\* at `at`, with this.device = dev, this.characteristic = ch, this.connected = cn.
Fallback(at, dev, ch, cn, c) ==
    LET c1 == [c EXCEPT !.failedAt = at, !.stored = dev] IN
    /\ device' = dev
    /\ characteristic' = ch
    /\ connected' = cn
    /\ IF dev = Null
       THEN \* if (!this.device) this.device = await requestDevice({acceptAllDevices})
            /\ conn' = [c1 EXCEPT !.pc = "altRequestDevice", !.unfiltered = TRUE]
            /\ last' = Step("connect", <<"requestDevice(acceptAllDevices)">>)
       ELSE IF Profile(dev).gatt
       THEN \* if (this.device.gatt) server = await this.device.gatt.connect()
            /\ conn' = [c1 EXCEPT !.pc = "altGattConnect", !.server = dev]
            /\ last' = Step("connect", <<"gatt.connect">>)
       ELSE \* throw error
            /\ conn' = Return(c1, "Error")
            /\ last' = Step("connect", << >>)

\* A connect() that asks for a device without looking at isSupported().
connectUnchecked ==
    /\ conn.pc = "idle"
    /\ conn' = [NoConnect EXCEPT !.pc = "requestDevice"]
    /\ last' = Step("connect", <<"requestDevice(filters)">>)
    /\ jobs' = Rest(jobs)
    /\ UNCHANGED <<shop, supported, receipt, device, characteristic, connected, link, listener>>

\* async connect(): up to the first await.
connect ==
    /\ conn.pc = "idle"
    /\ IF ~isSupported
       THEN /\ conn' = Return(NoConnect, "NotSupported")
            /\ last' = Step("connect", << >>)
       ELSE /\ conn' = [NoConnect EXCEPT !.pc = "requestDevice"]
            /\ last' = Step("connect", <<"requestDevice(filters)">>)
    /\ jobs' = Rest(jobs)
    /\ UNCHANGED <<shop, supported, receipt, device, characteristic, connected, link, listener>>

\* The filtered chooser resolves with a device advertising the printer service.
RequestDeviceResolved ==
    /\ conn.pc = "requestDevice"
    /\ \E d \in {x \in Devices : Profile(x).advertises} :
         LET c == [conn EXCEPT !.chosen = TRUE] IN
         IF ~Profile(d).gatt
         THEN \* throw new Error('GATT not available')
              Fallback("gatt", d, characteristic, connected, c)
         ELSE /\ device' = d
              /\ conn' = [c EXCEPT !.pc = "gattConnect", !.server = d]
              /\ last' = Step("connect", <<"gatt.connect">>)
              /\ UNCHANGED <<characteristic, connected>>
    /\ UNCHANGED <<shop, supported, receipt, link, listener>>
    /\ Observed

\* The user dismisses the filtered chooser (or nothing matches the filter).
RequestDeviceRejected ==
    /\ conn.pc = "requestDevice"
    /\ Fallback("requestDevice", device, characteristic, connected,
                [conn EXCEPT !.cancelled = TRUE])
    /\ UNCHANGED <<shop, supported, receipt, link, listener>>
    /\ Observed

\* gatt.connect() resolves: the link to the peripheral is up.
GattConnectResolved ==
    /\ conn.pc = "gattConnect"
    /\ link' = [link EXCEPT ![conn.server] = TRUE]
    /\ conn' = [conn EXCEPT !.pc = "getPrimaryService"]
    /\ last' = Step("connect", <<"getPrimaryService">>)
    /\ jobs' = Rest(jobs)
    /\ UNCHANGED <<shop, supported, receipt, device, characteristic, connected, listener>>

GattConnectRejected ==
    /\ conn.pc = "gattConnect"
    /\ Fallback("gatt.connect", device, characteristic, connected, conn)
    /\ UNCHANGED <<shop, supported, receipt, link, listener>>
    /\ Observed

\* server.getPrimaryService(PrinterService) resolves.
GetPrimaryServiceResolved ==
    /\ conn.pc = "getPrimaryService"
    /\ link[conn.server]
    /\ ServiceIndex(conn.server, PrinterService) # 0
    /\ conn' = [conn EXCEPT !.pc = "getCharacteristic",
                            !.svc = ServiceIndex(conn.server, PrinterService)]
    /\ last' = Step("connect", <<"getCharacteristic">>)
    /\ jobs' = Rest(jobs)
    /\ UNCHANGED <<shop, supported, receipt, device, characteristic, connected, link, listener>>

\* It rejects: the link dropped meanwhile, or the device has no such service.
GetPrimaryServiceRejected ==
    /\ conn.pc = "getPrimaryService"
    /\ ~link[conn.server] \/ ServiceIndex(conn.server, PrinterService) = 0
    /\ Fallback("getPrimaryService", device, characteristic, connected, conn)
    /\ UNCHANGED <<shop, supported, receipt, link, listener>>
    /\ Observed

\* service.getCharacteristic(PrinterCharacteristic) resolves; the rest of the try block.
GetCharacteristicResolved ==
    /\ conn.pc = "getCharacteristic"
    /\ link[conn.server]
    /\ CharacteristicIndex(conn.server, conn.svc, PrinterCharacteristic) # 0
    /\ LET ch == Char(conn.server, conn.svc,
                      CharacteristicIndex(conn.server, conn.svc, PrinterCharacteristic))
       IN IF device = Null
          THEN \* this.device.addEventListener throws a TypeError: this.device is null,
               \* after this.characteristic and this.connected were assigned
               /\ Fallback("addEventListener", device, ch, TRUE, conn)
               /\ listener' = listener
          ELSE /\ characteristic' = ch
               /\ connected' = TRUE
               /\ listener' = [listener EXCEPT ![device] = TRUE]
               /\ conn' = Return([conn EXCEPT !.path = "scoped"], "true")
               /\ last' = Step("connect", <<"addEventListener">>)
               /\ device' = device
    /\ UNCHANGED <<shop, supported, receipt, link>>
    /\ Observed

GetCharacteristicRejected ==
    /\ conn.pc = "getCharacteristic"
    /\ \/ ~link[conn.server]
       \/ CharacteristicIndex(conn.server, conn.svc, PrinterCharacteristic) = 0
    /\ Fallback("getCharacteristic", device, characteristic, connected, conn)
    /\ UNCHANGED <<shop, supported, receipt, link, listener>>
    /\ Observed


\* The chooser of requestDevice({acceptAllDevices: true}) resolves with any device.
AltRequestDeviceResolved ==
    /\ conn.pc = "altRequestDevice"
    /\ \E d \in Devices :
         /\ device' = d
         /\ IF Profile(d).gatt
            THEN /\ conn' = [conn EXCEPT !.pc = "altGattConnect", !.server = d, !.chosen = TRUE]
                 /\ last' = Step("connect", <<"gatt.connect">>)
            ELSE \* if (this.device.gatt) is skipped: throw error
                 /\ conn' = Return([conn EXCEPT !.chosen = TRUE], "Error")
                 /\ last' = Step("connect", << >>)
    /\ UNCHANGED <<shop, supported, receipt, characteristic, connected, link, listener>>
    /\ Observed

\* The user dismisses the second chooser: catch (altError), throw new Error('Failed to connect ...').
AltRequestDeviceRejected ==
    /\ conn.pc = "altRequestDevice"
    /\ conn' = Return([conn EXCEPT !.cancelled = TRUE], "Failed")
    /\ last' = Step("connect", << >>)
    /\ jobs' = Rest(jobs)
    /\ UNCHANGED <<shop, supported, receipt, device, characteristic, connected, link, listener>>

AltGattConnectResolved ==
    /\ conn.pc = "altGattConnect"
    /\ link' = [link EXCEPT ![conn.server] = TRUE]
    /\ conn' = [conn EXCEPT !.pc = "altGetPrimaryServices"]
    /\ last' = Step("connect", <<"getPrimaryServices">>)
    /\ jobs' = Rest(jobs)
    /\ UNCHANGED <<shop, supported, receipt, device, characteristic, connected, listener>>

AltGattConnectRejected ==
    /\ conn.pc = "altGattConnect"
    /\ conn' = Return(conn, "Failed")
    /\ last' = Step("connect", << >>)
    /\ jobs' = Rest(jobs)
    /\ UNCHANGED <<shop, supported, receipt, device, characteristic, connected, link, listener>>

\* server.getPrimaryServices() resolves; the outer loop asks the first service
\* for its characteristics.
AltGetPrimaryServicesResolved ==
    /\ conn.pc = "altGetPrimaryServices"
    /\ link[conn.server]
    /\ Len(Profile(conn.server).services) > 0
    /\ conn' = [conn EXCEPT !.pc = "altGetCharacteristics", !.svc = 1]
    /\ last' = Step("connect", <<"getCharacteristics">>)
    /\ jobs' = Rest(jobs)
    /\ UNCHANGED <<shop, supported, receipt, device, characteristic, connected, link, listener>>

AltGetPrimaryServicesRejected ==
    /\ conn.pc = "altGetPrimaryServices"
    /\ ~link[conn.server] \/ Len(Profile(conn.server).services) = 0
    /\ conn' = Return(conn, "Failed")
    /\ last' = Step("connect", << >>)
    /\ jobs' = Rest(jobs)
    /\ UNCHANGED <<shop, supported, receipt, device, characteristic, connected, link, listener>>

\* service.getCharacteristics() resolves; the inner loop, and the outer loop up
\* to its next await or to the end of the fallback.
AltGetCharacteristicsResolved ==
    /\ conn.pc = "altGetCharacteristics"
    /\ link[conn.server]
    /\ LET i == FirstWritableIn(conn.server, conn.svc) IN
       IF i # 0
       THEN \* this.characteristic = char; this.connected = true; return true
            /\ characteristic' = Char(conn.server, conn.svc, i)
            /\ connected' = TRUE
            /\ conn' = Return([conn EXCEPT !.path = "fallback"], "true")
            /\ last' = Step("connect", << >>)
       ELSE IF conn.svc < Len(Profile(conn.server).services)
       THEN /\ conn' = [conn EXCEPT !.svc = conn.svc + 1]
            /\ last' = Step("connect", <<"getCharacteristics">>)
            /\ UNCHANGED <<characteristic, connected>>
       ELSE \* both loops end without a match: throw error
            /\ conn' = Return(conn, "Error")
            /\ last' = Step("connect", << >>)
            /\ UNCHANGED <<characteristic, connected>>
    /\ UNCHANGED <<shop, supported, receipt, device, link, listener>>
    /\ Observed

AltGetCharacteristicsRejected ==
    /\ conn.pc = "altGetCharacteristics"
    /\ ~link[conn.server]
    /\ conn' = Return(conn, "Failed")
    /\ last' = Step("connect", << >>)
    /\ jobs' = Rest(jobs)
    /\ UNCHANGED <<shop, supported, receipt, device, characteristic, connected, link, listener>>

(***************************************************************************)
(* disconnect() and the disconnect notification                            *)
(***************************************************************************)
\* A disconnect() that keeps the stored device.
disconnectKeepingDevice ==
    /\ IF device # Null /\ Profile(device).gatt /\ link[device]
       THEN /\ link' = [link EXCEPT ![device] = FALSE]
            /\ last' = Step("disconnect", <<"gatt.disconnect">>)
       ELSE /\ link' = link
            /\ last' = Step("disconnect", << >>)
    /\ connected' = FALSE
    /\ characteristic' = NullChar
    /\ conn' = Settled(conn)
    /\ UNCHANGED <<shop, supported, receipt, device, listener>>
    /\ Observed

\* async disconnect(): it has no await.  gatt.disconnect() closes the link and
\* fires gattserverdisconnected at the device; what a listener on it assigns is
\* assigned again by the two lines that follow.
disconnect ==
    /\ IF device # Null /\ Profile(device).gatt /\ link[device]
       THEN /\ link' = [link EXCEPT ![device] = FALSE]
            /\ last' = Step("disconnect", <<"gatt.disconnect">>)
       ELSE /\ link' = link
            /\ last' = Step("disconnect", << >>)
    /\ connected' = FALSE
    /\ characteristic' = NullChar
    /\ device' = Null
    /\ conn' = Settled(conn)
    /\ UNCHANGED <<shop, supported, receipt, listener>>
    /\ Observed

\* The listener body: this.connected = false; this.characteristic = null.
\* It yields the new <<characteristic, connected>>.
onDisconnected == <<NullChar, FALSE>>

\* The peripheral drops the link (power off, out of range): the browser marks
\* the GATT server disconnected and dispatches gattserverdisconnected to the
\* listeners registered on that device object.
gattserverdisconnected(d) ==
    /\ link[d]
    /\ link' = [link EXCEPT ![d] = FALSE]
    /\ IF listener[d]
       THEN /\ characteristic' = onDisconnected[1]
            /\ connected' = onDisconnected[2]
       ELSE UNCHANGED <<characteristic, connected>>
    /\ last' = Step("gattserverdisconnected", << >>)
    /\ conn' = Settled(conn)
    /\ UNCHANGED <<shop, supported, receipt, device, listener>>
    /\ Observed

(***************************************************************************)
(* ESC/POS command builders                                                *)
(***************************************************************************)
\* buildCommand(...bytes): new Uint8Array(bytes)
buildCommand(bytes) == [k \in 1..Len(bytes) |-> bytes[k] % 256]

\* TextEncoder.encode of one code point (UTF-8, code points below 65536).
utf8(cp) ==
    IF cp < 128 THEN <<cp>>
    ELSE IF cp < 2048 THEN <<192 + (cp \div 64), 128 + (cp % 64)>>
    ELSE <<224 + (cp \div 4096), 128 + ((cp \div 64) % 64), 128 + (cp % 64)>>

\* textToBytes(text): the text is its sequence of code points.
RECURSIVE textToBytes(_)
textToBytes(text) ==
    IF text = << >> THEN << >> ELSE utf8(Head(text)) \o textToBytes(Tail(text))

\* char.repeat(n)
repeat(ch, n) == [k \in 1..n |-> ch]

LF == 10
initPrinter == buildCommand(<<ESC, 64>>)
setAlignment(align) == buildCommand(<<ESC, 97, align>>)
\* ((width - 1) << 4) | (height - 1), for 1 <= width, height <= 8
setTextSize(width, height) == buildCommand(<<GS, 33, (width - 1) * 16 + (height - 1)>>)
setBold(bold) == buildCommand(<<ESC, 69, IF bold THEN 1 ELSE 0>>)
feedLines(lines) == buildCommand(<<ESC, 100, lines>>)
cutPaper == buildCommand(<<GS, 86, 0>>)
lineFeed == textToBytes(<<LF>>)
separator(ch) == textToBytes(repeat(ch, totalWidth) \o <<LF>>)

\* combineArrays(...arrays): each array copied at the running offset.
RECURSIVE combineArrays(_)
combineArrays(arrays) ==
    IF arrays = << >> THEN << >> ELSE Head(arrays) \o combineArrays(Tail(arrays))

\* 'TEST PRINT'
TextTestPrint == <<84, 69, 83, 84, 32, 80, 82, 73, 78, 84>>
\* 'Printer is working correctly!'
TextWorking == <<80, 114, 105, 110, 116, 101, 114, 32, 105, 115, 32, 119, 111, 114, 107, 105, 110, 103, 32, 99, 111, 114, 114, 101, 99, 116, 108, 121, 33>>
\* '-'
Dash == 45

\* The commands of testPrint(), combined.
testPrintData ==
    combineArrays(<<
        initPrinter,
        setAlignment(1),
        setBold(TRUE),
        setTextSize(2, 2),
        textToBytes(TextTestPrint),
        lineFeed,
        setTextSize(1, 1),
        setBold(FALSE),
        separator(Dash),
        textToBytes(TextWorking),
        lineFeed,
        feedLines(3),
        cutPaper >>)


(***************************************************************************)
(* The receipt formatter of printBill.  A text is its sequence of code     *)
(* points (one per UTF-16 unit; the model stays below 65536).  Amounts are *)
(* counted in hundredths (paise), so that toFixed(2) is exact; quantities  *)
(* and discount values are whole numbers.  An optional field that is       *)
(* absent is the empty text or 0: the code only tests such fields for      *)
(* truthiness, and undefined, '' and 0 are all falsy.                      *)
(***************************************************************************)
Space == 32
Equals == 61
Minus == 45
Dot == 46
Percent == 37
Digit0 == 48

\* n.toString() for a whole number n >= 0
RECURSIVE digits(_)
digits(n) == IF n < 10 THEN <<Digit0 + n>> ELSE digits(n \div 10) \o <<Digit0 + (n % 10)>>

\* n.toString() for a whole number
toString(n) == IF n < 0 THEN <<Minus>> \o digits(0 - n) ELSE digits(n)

\* x.toFixed(2), x given in hundredths
toFixed2(c) ==
    LET a == IF c < 0 THEN 0 - c ELSE c IN
    (IF c < 0 THEN <<Minus>> ELSE << >>)
        \o digits(a \div 100) \o <<Dot, Digit0 + ((a % 100) \div 10), Digit0 + (a % 10)>>

\* s.padStart(n) and s.padEnd(n), padding with spaces
padStart(t, n) == IF Len(t) >= n THEN t ELSE repeat(Space, n - Len(t)) \o t
padEnd(t, n) == IF Len(t) >= n THEN t ELSE t \o repeat(Space, n - Len(t))

\* s.substring(0, end): a negative end counts as 0, an end beyond the text as its length
substring0(t, end) == SubSeq(t, 1, IF end < 0 THEN 0 ELSE Min(end, Len(t)))

Max(a, b) == IF a > b THEN a ELSE b

\* s.toUpperCase(), on the letters a-z
toUpperCase(t) == [k \in 1..Len(t) |-> IF t[k] >= 97 /\ t[k] <= 122 THEN t[k] - 32 ELSE t[k]]

\* White space as trim() sees it (space, tab, line feed, carriage return).
IsSpace(c) == c \in {32, 9, 10, 13}

RECURSIVE trimStart(_)
trimStart(t) == IF t # << >> /\ IsSpace(Head(t)) THEN trimStart(Tail(t)) ELSE t

RECURSIVE trimEnd(_)
trimEnd(t) == IF t # << >> /\ IsSpace(t[Len(t)]) THEN trimEnd(SubSeq(t, 1, Len(t) - 1)) ELSE t

trim(t) == trimEnd(trimStart(t))

\* s.split('\n')
RECURSIVE split(_, _)
split(t, cur) ==
    IF t = << >> THEN <<cur>>
    ELSE IF Head(t) = LF THEN <<cur>> \o split(Tail(t), << >>)
    ELSE split(Tail(t), Append(cur, Head(t)))

\* formatLine(left, right, totalWidth = 32)
formatLine(left, right) ==
    LET leftTrimmed == substring0(left, totalWidth - Len(right) - 1)
        spaces == totalWidth - Len(leftTrimmed) - Len(right)
    IN leftTrimmed \o repeat(Space, Max(0, spaces)) \o right

\* String literals of printBill.
\* 'Ph: '
TextPh == <<80, 104, 58, 32>>
\* 'GST: '
TextGST == <<71, 83, 84, 58, 32>>
\* 'Bill No:'
TextBillNo == <<66, 105, 108, 108, 32, 78, 111, 58>>
\* 'Date:'
TextDate == <<68, 97, 116, 101, 58>>
\* 'Customer:'
TextCustomer == <<67, 117, 115, 116, 111, 109, 101, 114, 58>>
\* 'Seller:'
TextSeller == <<83, 101, 108, 108, 101, 114, 58>>
\* 'Payment:'
TextPayment == <<80, 97, 121, 109, 101, 110, 116, 58>>
\* 'Item          Qty   Rate  Amount'
TextItemsHeader == <<73, 116, 101, 109, 32, 32, 32, 32, 32, 32, 32, 32, 32, 32, 81, 116, 121, 32, 32, 32, 82, 97, 116, 101, 32, 32, 65, 109, 111, 117, 110, 116>>
\* the truncation marker as the source file holds it: three code points
\* 'U+00E2 U+20AC U+00A6'
TextEllipsis == <<226, 8364, 166>>
\* 'Discount:'
TextDiscountPct == <<68, 105, 115, 99, 111, 117, 110, 116, 58>>
\* 'Discount:Rs'
TextDiscountRs == <<68, 105, 115, 99, 111, 117, 110, 116, 58, 82, 115>>
\* ' -Rs'
TextMinusRs == <<32, 45, 82, 115>>
\* '  After Discount:'
TextAfterDiscount == <<32, 32, 65, 102, 116, 101, 114, 32, 68, 105, 115, 99, 111, 117, 110, 116, 58>>
\* 'Rs.'
TextRsDot == <<82, 115, 46>>
\* 'Subtotal:'
TextSubtotal == <<83, 117, 98, 116, 111, 116, 97, 108, 58>>
\* 'Discount ('
TextDiscountOpen == <<68, 105, 115, 99, 111, 117, 110, 116, 32, 40>>
\* 'Discount (Rs.'
TextDiscountOpenRs == <<68, 105, 115, 99, 111, 117, 110, 116, 32, 40, 82, 115, 46>>
\* '%):'
TextPctClose == <<37, 41, 58>>
\* '):'
TextClose == <<41, 58>>
\* '- Rs.'
TextMinusRsDot == <<45, 32, 82, 115, 46>>
\* 'Total: Rs.'
TextTotal == <<84, 111, 116, 97, 108, 58, 32, 82, 115, 46>>
\* 'Note: '
TextNote == <<78, 111, 116, 101, 58, 32>>
\* 'Thank you for your business!'
TextThanks == <<84, 104, 97, 110, 107, 32, 121, 111, 117, 32, 102, 111, 114, 32, 121, 111, 117, 114, 32, 98, 117, 115, 105, 110, 101, 115, 115, 33>>

\* One entry of `commands`: the bytes pushed, and what they are.
Cmd(kind, bytes) == [kind |-> kind, bytes |-> bytes]

\* A text pushed twice, each time with its line feed.
TextLineTwice(kind, text) ==
    <<Cmd(kind, textToBytes(text)), Cmd("lf", lineFeed), Cmd(kind, textToBytes(text)), Cmd("lf", lineFeed)>>

TextLine(kind, text) == <<Cmd(kind, textToBytes(text)), Cmd("lf", lineFeed)>>

\* The body of the loop for one item, with the discount lines decided by the
\* item's discount amount instead of its discount value.
itemCommandsByAmount(item) ==
    LET subtotal == item.quantity * item.rate
        hasDiscount == item.discountAmount # 0 /\ item.discountAmount > 0
        name == IF Len(item.name) > 12
                THEN substring0(item.name, 12) \o TextEllipsis
                ELSE padEnd(item.name, 12)
        qty == padStart(toString(item.quantity), 3)
        rate == padStart(toFixed2(item.rate), 7)
        amount == padStart(toFixed2(IF hasDiscount THEN subtotal ELSE item.total), 8)
        itemLine == name \o qty \o rate \o amount
        discountLabel == IF item.discountType = "percentage"
                         THEN TextDiscountPct \o toString(item.discountValue) \o <<Percent>>
                         ELSE TextDiscountRs \o toString(item.discountValue)
        discountInfo == <<Space, Space>> \o discountLabel \o TextMinusRs \o toFixed2(item.discountAmount)
        afterDiscountLine == formatLine(TextAfterDiscount, TextRsDot \o toFixed2(item.total))
    IN TextLine("item", itemLine)
       \o (IF hasDiscount
           THEN TextLine("itemDiscount", discountInfo)
                \o <<Cmd("cmd", setBold(TRUE))>>
                \o TextLine("afterDiscount", afterDiscountLine)
                \o <<Cmd("cmd", setBold(FALSE))>>
           ELSE << >>)

\* The body of the loop over billData.items, for one item.
itemCommands(item) ==
    LET subtotal == item.quantity * item.rate
        hasDiscount == item.discountValue # 0 /\ item.discountValue > 0
        name == IF Len(item.name) > 12
                THEN substring0(item.name, 12) \o TextEllipsis
                ELSE padEnd(item.name, 12)
        qty == padStart(toString(item.quantity), 3)
        rate == padStart(toFixed2(item.rate), 7)
        amount == padStart(toFixed2(IF hasDiscount THEN subtotal ELSE item.total), 8)
        itemLine == name \o qty \o rate \o amount
        discountLabel == IF item.discountType = "percentage"
                         THEN TextDiscountPct \o toString(item.discountValue) \o <<Percent>>
                         ELSE TextDiscountRs \o toString(item.discountValue)
        discountInfo == <<Space, Space>> \o discountLabel \o TextMinusRs \o toFixed2(item.discountAmount)
        afterDiscountLine == formatLine(TextAfterDiscount, TextRsDot \o toFixed2(item.total))
    IN TextLine("item", itemLine)
       \o (IF hasDiscount
           THEN TextLine("itemDiscount", discountInfo)
                \o <<Cmd("cmd", setBold(TRUE))>>
                \o TextLine("afterDiscount", afterDiscountLine)
                \o <<Cmd("cmd", setBold(FALSE))>>
           ELSE << >>)

\* A loop over the items that stops after the first item.
itemsCommandsFirstOnly(items) ==
    IF items = << >> THEN << >> ELSE itemCommands(Head(items))

RECURSIVE itemsCommands(_)
itemsCommands(items) ==
    IF items = << >> THEN << >> ELSE itemCommands(Head(items)) \o itemsCommands(Tail(items))

\* The loop over termsAndConditions.split('\n'): blank lines are skipped.
RECURSIVE termsCommands(_)
termsCommands(lines) ==
    IF lines = << >> THEN << >>
    ELSE (IF trim(Head(lines)) # << >> THEN TextLine("terms", trim(Head(lines))) ELSE << >>)
         \o termsCommands(Tail(lines))

\* The order-level discount line of the totals block.
discountLine(billData) ==
    LET discountLabel == IF billData.discountType = "percentage"
                         THEN TextDiscountOpen \o toString(billData.discountValue) \o TextPctClose
                         ELSE TextDiscountOpenRs \o toString(billData.discountValue) \o TextClose
    IN formatLine(discountLabel, TextMinusRsDot \o toFixed2(billData.discountAmount))

\* A totals block that prints the discount line whenever the discount amount is
\* positive, whatever the discount value.
discountCommandsByAmount(billData) ==
    IF billData.discountAmount > 0
    THEN TextLine("discount", discountLine(billData))
    ELSE << >>

\* if (billData.discountValue && billData.discountValue > 0 && billData.discountAmount) { ... }
discountCommands(billData) ==
    IF billData.discountValue # 0 /\ billData.discountValue > 0 /\ billData.discountAmount # 0
    THEN TextLine("discount", discountLine(billData))
    ELSE << >>

\* The `commands` array printBill builds for billData.
billCommands(billData) ==
    LET subtotal == IF billData.subtotal # 0 THEN billData.subtotal ELSE billData.grandTotal
    IN <<Cmd("cmd", initPrinter),
         Cmd("cmd", setAlignment(1)),
         Cmd("cmd", setBold(TRUE)),
         Cmd("cmd", setTextSize(2, 2))>>
       \o TextLine("businessName", toUpperCase(billData.businessName))
       \o <<Cmd("cmd", setTextSize(1, 1)),
            Cmd("cmd", setBold(FALSE))>>
       \o (IF billData.address # << >> THEN TextLine("header", billData.address) ELSE << >>)
       \o (IF billData.phone # << >> THEN TextLine("header", TextPh \o billData.phone) ELSE << >>)
       \o (IF billData.email # << >> THEN TextLine("header", billData.email) ELSE << >>)
       \o (IF billData.gst # << >> THEN TextLine("header", TextGST \o billData.gst) ELSE << >>)
       \o <<Cmd("separator", separator(Equals)),
            Cmd("cmd", setAlignment(0))>>
       \o TextLine("detail", formatLine(TextBillNo, billData.billNumber))
       \o TextLine("detail", formatLine(TextDate, billData.date))
       \o (IF billData.customerName # << >>
           THEN TextLine("detail", formatLine(TextCustomer, billData.customerName)) ELSE << >>)
       \o (IF billData.sellerName # << >>
           THEN TextLine("detail", formatLine(TextSeller, billData.sellerName)) ELSE << >>)
       \o (IF billData.paymentMode # << >>
           THEN TextLine("detail", formatLine(TextPayment, billData.paymentMode)) ELSE << >>)
       \o <<Cmd("separator", separator(Dash)),
            Cmd("cmd", setBold(TRUE))>>
       \o TextLine("itemsHeader", TextItemsHeader)
       \o <<Cmd("separator", separator(Dash)),
            Cmd("cmd", setBold(FALSE))>>
       \o itemsCommands(billData.items)
       \o <<Cmd("separator", separator(Dash))>>
       \o TextLine("subtotal", formatLine(TextSubtotal, TextRsDot \o toFixed2(subtotal)))
       \o discountCommands(billData)
       \o <<Cmd("totalSeparator", separator(Equals)),
            Cmd("cmd", setBold(TRUE)),
            Cmd("cmd", setTextSize(2, 2)),
            Cmd("cmd", setAlignment(2))>>
       \o TextLine("grandTotal", TextTotal \o toFixed2(billData.grandTotal))
       \o <<Cmd("cmd", setTextSize(1, 1)),
            Cmd("cmd", setBold(FALSE)),
            Cmd("cmd", setAlignment(0))>>
       \o (IF billData.notes # << >>
           THEN <<Cmd("separator", separator(Dash))>> \o TextLine("notes", TextNote \o billData.notes)
           ELSE << >>)
       \o (IF billData.termsAndConditions # << >>
           THEN <<Cmd("separator", separator(Dash)), Cmd("cmd", setAlignment(1))>>
                \o termsCommands(split(billData.termsAndConditions, << >>))
           ELSE << >>)
       \o <<Cmd("separator", separator(Equals)),
            Cmd("cmd", setAlignment(1))>>
       \o TextLine("footer", TextThanks)
       \o <<Cmd("lf", lineFeed),
            Cmd("cmd", feedLines(3)),
            Cmd("cmd", cutPaper)>>

\* finalData = this.combineArrays(...commands)
billData2bytes(billData) ==
    LET commands == billCommands(billData)
    IN combineArrays([k \in 1..Len(commands) |-> commands[k].bytes])


(***************************************************************************)
(* The bills printed in the model.                                         *)
(***************************************************************************)
\* The print data BillPreview sends for a one-item bill: no subtotal, no discount.
BillPlain ==
    [businessName |-> <<84, 101, 115, 116, 32, 83, 104, 111, 112>>,  \* 'Test Shop'
     address |-> <<>>,  \* ''
     phone |-> <<>>,  \* ''
     email |-> <<>>,  \* ''
     gst |-> <<>>,  \* ''
     billNumber |-> <<66, 73, 76, 76, 45, 50, 48, 50, 53, 45, 48, 48, 48, 49>>,  \* 'BILL-2025-0001'
     date |-> <<48, 49, 32, 74, 97, 110, 32, 50, 48, 50, 53, 44, 32, 49, 48, 58, 51, 48, 32, 97, 109>>,  \* '01 Jan 2025, 10:30 am'
     customerName |-> <<>>,  \* ''
     sellerName |-> <<>>,  \* ''
     paymentMode |-> <<>>,  \* ''
     items |-> <<
            [name |-> <<87, 105, 100, 103, 101, 116>>,  \* 'Widget'
             quantity |-> 2, rate |-> 5000, total |-> 10000,
             discountType |-> "", discountValue |-> 0, discountAmount |-> 0] >>,
     subtotal |-> 0,
     discountType |-> "",
     discountValue |-> 0,
     discountAmount |-> 0,
     grandTotal |-> 10000,
     notes |-> <<>>,  \* ''
     termsAndConditions |-> <<>>]  \* ''

\* A bill with a discounted item, an order discount, a note and terms.
BillFull ==
    [businessName |-> <<82, 97, 106, 32, 83, 116, 111, 114, 101>>,  \* 'Raj Store'
     address |-> <<>>,  \* ''
     phone |-> <<57, 56, 55, 54, 53, 52, 51, 50, 49, 48>>,  \* '9876543210'
     email |-> <<>>,  \* ''
     gst |-> <<>>,  \* ''
     billNumber |-> <<66, 73, 76, 76, 45, 50, 48, 50, 53, 45, 48, 48, 48, 50>>,  \* 'BILL-2025-0002'
     date |-> <<48, 50, 32, 74, 97, 110, 32, 50, 48, 50, 53, 44, 32, 48, 54, 58, 48, 53, 32, 112, 109>>,  \* '02 Jan 2025, 06:05 pm'
     customerName |-> <<65, 115, 104, 97>>,  \* 'Asha'
     sellerName |-> <<>>,  \* ''
     paymentMode |-> <<67, 97, 115, 104>>,  \* 'Cash'
     items |-> <<
            [name |-> <<66, 97, 115, 109, 97, 116, 105, 32, 82, 105, 99, 101, 32, 53, 107, 103>>,  \* 'Basmati Rice 5kg'
             quantity |-> 1, rate |-> 45000, total |-> 40500,
             discountType |-> "percentage", discountValue |-> 10, discountAmount |-> 4500],
            [name |-> <<83, 117, 103, 97, 114>>,  \* 'Sugar'
             quantity |-> 3, rate |-> 4550, total |-> 13650,
             discountType |-> "", discountValue |-> 0, discountAmount |-> 0] >>,
     subtotal |-> 54150,
     discountType |-> "fixed",
     discountValue |-> 50,
     discountAmount |-> 5000,
     grandTotal |-> 49150,
     notes |-> <<79, 75>>,  \* 'OK'
     termsAndConditions |-> <<78, 111, 32, 114, 101, 116, 117, 114, 110, 115, 10, 10, 32, 32, 69, 38, 79, 69, 32, 32>>]  \* 'No returns\n\n  E&OE  '

Bills == {BillPlain, BillFull}

(***************************************************************************)
(* The transport: sendData                                                 *)
(***************************************************************************)
\* The print operations.  The model holds one call of each at a time: each of
\* the two buttons that start them is disabled while its own call is in flight.
Kinds == {"printBill", "testPrint"}

\* A slice that loses the last byte of its range.
sliceShort(data, i, end) == SubSeq(data, i + 1, Min(end - 1, Len(data)))

\* data.slice(i, end): the bytes at offsets i .. end - 1, as far as they exist
slice(data, i, end) == SubSeq(data, i + 1, Min(end, Len(data)))

\* What the caller of sendData makes of an error thrown in it: the catch of
\* printBill replaces every error by 'Failed to print bill. ...'; testPrint has
\* no catch and rejects with the error itself.
Thrown(kind, error) == IF kind = "printBill" THEN "Failed to print bill" ELSE error

\* The head of the loop of sendData at offset job.i, run until its await:
\* for (...; i < data.length; ...) await this.characteristic.writeValue(data.slice(i, i + chunkSize))
Iterate(kind, job) ==
    IF job.i < Len(job.data)
    THEN IF characteristic = NullChar
         THEN \* this.characteristic is null: calling writeValue on it throws a TypeError
              [job EXCEPT !.pc = "done", !.result = Thrown(kind, "TypeError")]
         ELSE [job EXCEPT !.pc = "writeValue",
                          !.writes = Append(job.writes,
                                [char |-> characteristic, offset |-> job.i,
                                 chunk |-> slice(job.data, job.i, job.i + chunkSize),
                                 status |-> "pending"])]
    ELSE [job EXCEPT !.pc = "done", !.result = "ok"]

\* sendData(data) up to its first await.
sendData(kind, job) ==
    IF characteristic = NullChar
    THEN [job EXCEPT !.pc = "done", !.result = Thrown(kind, "Printer not connected")]
    ELSE Iterate(kind, [job EXCEPT !.i = 0])

\* The calls a step of sendData made: one writeValue if a write was issued.
WriteCalls(before, after) ==
    IF Len(after.writes) > Len(before.writes) THEN <<"writeValue">> ELSE << >>

\* A print call that goes to sendData without asking isConnected().
PrintUnguarded(kind, data) ==
    /\ ~InFlight(jobs[kind])
    /\ LET job == [NoJob EXCEPT !.data = data, !.wasConnected = isConnected]
           run == sendData(kind, job)
       IN /\ jobs' = [Rest(jobs) EXCEPT ![kind] = run]
          /\ last' = Step(kind, WriteCalls(job, run))
    /\ conn' = Settled(conn)
    /\ UNCHANGED <<shop, supported, receipt, device, characteristic, connected, link, listener>>

\* A print call, printBill(billData) or testPrint(), up to its first await.
printCall(kind, data) ==
    /\ ~InFlight(jobs[kind])
    /\ LET job == [NoJob EXCEPT !.data = data, !.wasConnected = isConnected]
           run == IF ~isConnected
                  THEN \* throw new Error('Printer not connected'), before any command is built
                       [job EXCEPT !.pc = "done", !.data = << >>, !.result = "Printer not connected"]
                  ELSE sendData(kind, job)
       IN /\ jobs' = [Rest(jobs) EXCEPT ![kind] = run]
          /\ last' = Step(kind, WriteCalls(job, run))
    /\ conn' = Settled(conn)
    /\ UNCHANGED <<shop, supported, receipt, device, characteristic, connected, link, listener>>

testPrint == printCall("testPrint", testPrintData)

printBill == \E billData \in Bills : printCall("printBill", billData2bytes(billData))

\* A write that resolves whether or not the link to the peripheral is up.
WriteResolvedAnyLink(kind) ==
    /\ jobs[kind].pc = "writeValue"
    /\ LET n == Len(jobs[kind].writes) IN
         jobs' = [Rest(jobs) EXCEPT ![kind].pc = "setTimeout",
                                    ![kind].writes[n].status = "written"]
    /\ last' = Step(kind, << >>)
    /\ conn' = Settled(conn)
    /\ UNCHANGED <<shop, supported, receipt, device, characteristic, connected, link, listener>>

\* characteristic.writeValue(chunk) resolves: the 10 ms delay starts.
WriteResolved(kind) ==
    /\ jobs[kind].pc = "writeValue"
    /\ LET n == Len(jobs[kind].writes) IN
         /\ link[jobs[kind].writes[n].char.dev]
         /\ jobs' = [Rest(jobs) EXCEPT ![kind].pc = "setTimeout",
                                       ![kind].writes[n].status = "written"]
    /\ last' = Step(kind, << >>)
    /\ conn' = Settled(conn)
    /\ UNCHANGED <<shop, supported, receipt, device, characteristic, connected, link, listener>>

\* A sendData that answers a rejected write by writing the same chunk again.
RejectedRetry(kind, job) ==
    [job EXCEPT !.writes = Append([job.writes EXCEPT ![Len(job.writes)].status = "failed"],
                                  [job.writes[Len(job.writes)] EXCEPT !.char = characteristic])]

\* The error of a rejected write reaches the caller of sendData.
Rejected(kind, job) ==
    [job EXCEPT !.pc = "done", !.result = Thrown(kind, "write error"),
                !.writes[Len(job.writes)].status = "failed"]

\* A rejected write that also marks the service disconnected.
WriteRejectedDropping(kind) ==
    /\ jobs[kind].pc = "writeValue"
    /\ jobs' = [Rest(jobs) EXCEPT ![kind] = Rejected(kind, jobs[kind])]
    /\ last' = Step(kind, << >>)
    /\ conn' = Settled(conn)
    /\ connected' = FALSE
    /\ characteristic' = NullChar
    /\ UNCHANGED <<shop, supported, receipt, device, link, listener>>

\* characteristic.writeValue(chunk) rejects (the link is down, or the GATT
\* operation failed): sendData throws.
WriteRejected(kind) ==
    /\ jobs[kind].pc = "writeValue"
    /\ jobs' = [Rest(jobs) EXCEPT ![kind] = Rejected(kind, jobs[kind])]
    /\ last' = Step(kind, << >>)
    /\ conn' = Settled(conn)
    /\ UNCHANGED <<shop, supported, receipt, device, characteristic, connected, link, listener>>

\* The delay ends: i += chunkSize and the loop goes on.
TimeoutElapsed(kind) ==
    /\ jobs[kind].pc = "setTimeout"
    /\ LET run == Iterate(kind, [jobs[kind] EXCEPT !.i = jobs[kind].i + chunkSize]) IN
         /\ jobs' = [Rest(jobs) EXCEPT ![kind] = run]
         /\ last' = Step(kind, WriteCalls(jobs[kind], run))
    /\ conn' = Settled(conn)
    /\ UNCHANGED <<shop, supported, receipt, device, characteristic, connected, link, listener>>

(***************************************************************************)
(* The billing side: the CreateBill component of a browser session, the    *)
(* API client (utils/api.ts) and the request handlers of the server.  A    *)
(* handler runs until its next await; every awaited call of the key-value  *)
(* store is one step at the store.  Amounts are counted in hundredths      *)
(* (paise) as in the receipt formatter, with rates in whole rupees, so     *)
(* that a whole percentage of a subtotal is exact.                         *)
(***************************************************************************)
\* The browser sessions, each with its signed-in user (user.id).
Clients == {"A", "B"}

\* The stock items sold.  Bill items are picked from the stock (they carry the
\* stockId and the name of the stock item), so that the loop of handleSaveBill
\* that auto-creates stock for manual entries finds nothing to create.
StockIds == {"S1"}

\* The highest value the bill counter takes in the model.
MaxCounter == 4

\* The most items a bill has in the model.
MaxItems == 2

\* new Date().getFullYear()
Years == {2025}

\* s.padStart(n, ch)
padStartWith(t, n, ch) == IF Len(t) >= n THEN t ELSE repeat(ch, n - Len(t)) \o t

\* 'BILL-'
TextBill == <<66, 73, 76, 76, 45>>

\* `BILL-${year}-${String(nextNumber).padStart(4, '0')}`
billNumberFormat(year, nextNumber) ==
    TextBill \o toString(year) \o <<Minus>> \o padStartWith(toString(nextNumber), 4, Digit0)

\* The bill numbers of the model: the ones the server suggests.
BillNumbers == {billNumberFormat(y, n) : y \in Years, n \in 1..MaxCounter}

\* A Bill as CreateBill builds it.  An optional field that is undefined is the
\* empty text or 0.
NoBill ==
    [billNumber |-> << >>, items |-> << >>, subtotal |-> 0, discountType |-> "",
     discountValue |-> 0, discountAmount |-> 0, grandTotal |-> 0, sellerId |-> ""]

\* calculateTotal(quantity, rate) of ItemModal
calculateTotal(quantity, rate) == quantity * rate

\* calculateSubtotal(): items.reduce((sum, item) => sum + item.total, 0)
RECURSIVE calculateSubtotal(_)
calculateSubtotal(items) ==
    IF items = << >> THEN 0 ELSE Head(items).total + calculateSubtotal(Tail(items))

\* calculateDiscountAmount(): a fixed discount value is in rupees
calculateDiscountAmount(items, discountType, discountValue) ==
    LET subtotal == calculateSubtotal(items)
        discountVal == discountValue
    IN IF discountType = "fixed"
       THEN Min(100 * discountVal, subtotal)
       ELSE (subtotal * discountVal) \div 100

\* calculateGrandTotal()
calculateGrandTotal(items, discountType, discountValue) ==
    LET subtotal == calculateSubtotal(items)
        discount == calculateDiscountAmount(items, discountType, discountValue)
    IN Max(0, subtotal - discount)

\* The state of a CreateBill component.  An empty discount input (null) is 0:
\* the component only uses `discountValue || 0` and `discountValue > 0`.
NewForm ==
    [mounted |-> FALSE, billNumber |-> << >>, suggestedBillNumber |-> << >>,
     billNumberError |-> "", items |-> << >>, discountType |-> "fixed",
     discountValue |-> 0, loading |-> FALSE, createdBill |-> NoBill,
     pc |-> "idle", bill |-> NoBill, suggestions |-> << >>]

\* No request of a session is with the server.
NoResponse == [success |-> FALSE, status |-> 0, billNumber |-> << >>, bill |-> NoBill]
NoReq ==
    [endpoint |-> "none", pc |-> "none", billNumber |-> << >>, bill |-> NoBill,
     nextNumber |-> 0, k |-> 0, quantity |-> 0, response |-> NoResponse]

\* apiCall(endpoint, options): the request reaches its handler, which starts at
\* its first awaited call of the store.
apiCall(endpoint, pc, billNumber, bill) ==
    [NoReq EXCEPT !.endpoint = endpoint, !.pc = pc, !.billNumber = billNumber, !.bill = bill]

\* The handler returns c.json(...): the response is on its way to the session.
Respond(r, response) == [r EXCEPT !.pc = "responded", !.response = response]

\* Sessions whose handler in flight ends with a request for the next bill number.
Pending == Cardinality({c \in Clients : forms[c].pc # "idle"})

\* The bill counter stays within the model.
Headroom == kv.counter + Pending < MaxCounter

(***************************************************************************)
(* CreateBill: the form                                                    *)
(***************************************************************************)
\* useEffect(() => { loadStock(); loadSettings(); loadSuggestedBillNumber(); }, [])
mount(c) ==
    /\ ~forms[c].mounted
    /\ Headroom
    /\ forms' = [forms EXCEPT ![c].mounted = TRUE, ![c].pc = "loadSuggestedBillNumber"]
    /\ reqs' = [reqs EXCEPT ![c] = apiCall("get-next-bill-number", "kv.get", << >>, NoBill)]
    /\ UNCHANGED <<kv, printer>>

\* loadSuggestedBillNumber after its await: setSuggestedBillNumber(suggested)
loadSuggestedBillNumberResolved(c) ==
    /\ forms[c].pc = "loadSuggestedBillNumber"
    /\ reqs[c].pc = "responded"
    /\ forms' = [forms EXCEPT ![c].pc = "idle",
                              ![c].suggestedBillNumber = reqs[c].response.billNumber,
                              ![c].suggestions = Append(@, reqs[c].response.billNumber)]
    /\ reqs' = [reqs EXCEPT ![c] = NoReq]
    /\ UNCHANGED <<kv, printer>>

\* useSuggestedNumber up to its await
useSuggestedNumber(c) ==
    /\ forms[c].mounted /\ forms[c].pc = "idle"
    /\ Headroom
    /\ forms' = [forms EXCEPT ![c].pc = "useSuggestedNumber"]
    /\ reqs' = [reqs EXCEPT ![c] = apiCall("get-next-bill-number", "kv.get", << >>, NoBill)]
    /\ UNCHANGED <<kv, printer>>

\* useSuggestedNumber after its await: the fresh suggestion becomes the bill number
useSuggestedNumberResolved(c) ==
    /\ forms[c].pc = "useSuggestedNumber"
    /\ reqs[c].pc = "responded"
    /\ forms' = [forms EXCEPT ![c].pc = "idle",
                              ![c].suggestedBillNumber = reqs[c].response.billNumber,
                              ![c].billNumber = reqs[c].response.billNumber,
                              ![c].billNumberError = "",
                              ![c].suggestions = Append(@, reqs[c].response.billNumber)]
    /\ reqs' = [reqs EXCEPT ![c] = NoReq]
    /\ UNCHANGED <<kv, printer>>

\* handleBillNumberChange(value)
handleBillNumberChange(c, value) ==
    /\ forms[c].mounted
    /\ forms' = [forms EXCEPT ![c].billNumber = value, ![c].billNumberError = ""]
    /\ UNCHANGED <<kv, reqs, printer>>

\* ItemModal.handleSave for a new item picked from the stock, and saveItem:
\* quantity and rate are what the two number inputs hold.
handleSave(c, stockId, quantity, rate) ==
    /\ forms[c].mounted
    /\ Len(forms[c].items) < MaxItems
    /\ IF quantity <= 0 \/ rate <= 0
       THEN \* setError('Please ensure Name, Quantity (>0), and Rate (>0) ...')
            forms' = forms
       ELSE LET itemToSave == [stockId |-> stockId, quantity |-> quantity, rate |-> rate,
                               total |-> calculateTotal(quantity, rate)]
            IN forms' = [forms EXCEPT ![c].items = Append(@, itemToSave)]
    /\ UNCHANGED <<kv, reqs, printer>>

\* removeItem(id), for the item at position k
removeItem(c, k) ==
    /\ k \in DOMAIN forms[c].items
    /\ forms' = [forms EXCEPT ![c].items = SubSeq(@, 1, k - 1) \o SubSeq(@, k + 1, Len(@))]
    /\ UNCHANGED <<kv, reqs, printer>>

\* The discount type select and the discount value input.
setDiscountType(c, value) ==
    /\ forms[c].mounted
    /\ forms' = [forms EXCEPT ![c].discountType = value]
    /\ UNCHANGED <<kv, reqs, printer>>

setDiscountValue(c, value) ==
    /\ forms[c].mounted
    /\ forms' = [forms EXCEPT ![c].discountValue = value]
    /\ UNCHANGED <<kv, reqs, printer>>

(***************************************************************************)
(* CreateBill: handleSaveBill                                              *)
(***************************************************************************)
\* The bill handleSaveBill builds from the values of the render it was started
\* in, for the user of the session.
buildBill(f, user) ==
    LET subtotal == calculateSubtotal(f.items)
        discountAmount == calculateDiscountAmount(f.items, f.discountType, f.discountValue)
        grandTotal == calculateGrandTotal(f.items, f.discountType, f.discountValue)
    IN [billNumber |-> trim(f.billNumber),
        items |-> f.items,
        subtotal |-> subtotal,
        discountType |-> IF f.discountValue > 0 THEN f.discountType ELSE "",
        discountValue |-> IF f.discountValue > 0 THEN f.discountValue ELSE 0,
        discountAmount |-> IF f.discountValue > 0 THEN discountAmount ELSE 0,
        grandTotal |-> grandTotal,
        sellerId |-> user]

\* handleSaveBill up to its first await, the uniqueness lookup.  The Save button
\* is disabled while loading or without items.
handleSaveBill(c) ==
    /\ forms[c].mounted /\ forms[c].pc = "idle"
    /\ ~forms[c].loading /\ forms[c].items # << >>
    /\ Headroom
    /\ LET f == forms[c] IN
       IF trim(f.billNumber) = << >>
       THEN /\ forms' = [forms EXCEPT ![c].billNumberError = "Bill number is required"]
            /\ reqs' = reqs
       ELSE IF \E k \in DOMAIN f.items : f.items[k].quantity <= 0 \/ f.items[k].rate <= 0
       THEN UNCHANGED <<forms, reqs>>
       ELSE /\ forms' = [forms EXCEPT ![c].loading = TRUE,
                                      ![c].pc = "checkBillNumberUnique",
                                      ![c].bill = buildBill(f, c)]
            /\ reqs' = [reqs EXCEPT ![c] = apiCall("get-bill", "kv.get", trim(f.billNumber), NoBill)]
    /\ UNCHANGED <<kv, printer>>

\* billAPI.getBillByNumber: data.bill, or null when apiCall throws
getBillByNumber(response) == IF response.success THEN response.bill ELSE NoBill

\* checkBillNumberUnique: bill === null
checkBillNumberUnique(response) == getBillByNumber(response) = NoBill

\* handleSaveBill after the lookup: the bill is posted, or the save is refused.
checkBillNumberUniqueResolved(c) ==
    /\ forms[c].pc = "checkBillNumberUnique"
    /\ reqs[c].pc = "responded"
    /\ IF ~checkBillNumberUnique(reqs[c].response)
       THEN /\ forms' = [forms EXCEPT ![c].billNumberError = "This bill number already exists",
                                      ![c].loading = FALSE,
                                      ![c].pc = "idle",
                                      ![c].bill = NoBill]
            /\ reqs' = [reqs EXCEPT ![c] = NoReq]
       ELSE /\ forms' = [forms EXCEPT ![c].pc = "createBill"]
            /\ reqs' = [reqs EXCEPT ![c] = apiCall("create-bill", "kv.set", << >>, forms[c].bill)]
    /\ UNCHANGED <<kv, printer>>

\* handleSaveBill after billAPI.createBill: the form is reset and the next
\* suggestion is asked for (loadSuggestedBillNumber() is not awaited), or the
\* save has failed.
createBillResolved(c) ==
    /\ forms[c].pc = "createBill"
    /\ reqs[c].pc = "responded"
    /\ IF reqs[c].response.success
       THEN /\ forms' = [forms EXCEPT ![c].createdBill = forms[c].bill,
                                      ![c].bill = NoBill,
                                      ![c].items = << >>,
                                      ![c].discountType = "fixed",
                                      ![c].discountValue = 0,
                                      ![c].billNumber = << >>,
                                      ![c].billNumberError = "",
                                      ![c].loading = FALSE,
                                      ![c].pc = "loadSuggestedBillNumber"]
            /\ reqs' = [reqs EXCEPT ![c] = apiCall("get-next-bill-number", "kv.get", << >>, NoBill)]
       ELSE /\ forms' = [forms EXCEPT ![c].loading = FALSE, ![c].pc = "idle", ![c].bill = NoBill]
            /\ reqs' = [reqs EXCEPT ![c] = NoReq]
    /\ UNCHANGED <<kv, printer>>

(***************************************************************************)
(* The request handlers                                                    *)
(***************************************************************************)
\* POST /get-next-bill-number: counter = await kv.get(counterKey), up to the
\* await of kv.set.  A counter that is not stored yet is 0.
getNextBillNumberGet(c) ==
    /\ reqs[c].endpoint = "get-next-bill-number" /\ reqs[c].pc = "kv.get"
    /\ LET counter == kv.counter
           nextNumber == IF counter # 0 THEN counter + 1 ELSE 1
       IN reqs' = [reqs EXCEPT ![c].pc = "kv.set", ![c].nextNumber = nextNumber]
    /\ UNCHANGED <<forms, kv, printer>>

\* await kv.set(counterKey, nextNumber), and the response with the bill number.
getNextBillNumberSet(c) ==
    /\ reqs[c].endpoint = "get-next-bill-number" /\ reqs[c].pc = "kv.set"
    /\ kv' = [kv EXCEPT !.counter = reqs[c].nextNumber]
    /\ \E year \in Years :
         reqs' = [reqs EXCEPT ![c] =
                    Respond(@, [NoResponse EXCEPT !.success = TRUE, !.status = 200,
                                                  !.billNumber = billNumberFormat(year, reqs[c].nextNumber)])]
    /\ UNCHANGED <<forms, printer>>

\* GET /get-bill/:billNumber: billData = await kv.get(`bill:${billNumber}`)
getBillGet(c) ==
    /\ reqs[c].endpoint = "get-bill" /\ reqs[c].pc = "kv.get"
    /\ LET billData == kv.bills[reqs[c].billNumber] IN
       reqs' = [reqs EXCEPT ![c] =
                  IF billData = NoBill
                  THEN Respond(@, [NoResponse EXCEPT !.status = 404])
                  ELSE Respond(@, [NoResponse EXCEPT !.success = TRUE, !.status = 200, !.bill = billData])]
    /\ UNCHANGED <<forms, kv, printer>>

\* The store cannot be read: catch (error), the response is a 500.
getBillFailed(c) ==
    /\ reqs[c].endpoint = "get-bill" /\ reqs[c].pc = "kv.get"
    /\ reqs' = [reqs EXCEPT ![c] = Respond(@, [NoResponse EXCEPT !.status = 500])]
    /\ UNCHANGED <<forms, kv, printer>>

\* The loop of create-bill over bill.items from position k on, up to its next
\* await: the next item with a stockId is looked up, or the handler responds.
StockLoop(r, from) ==
    LET items == r.bill.items
        hits == {k \in from..Len(items) : items[k].stockId # ""}
    IN IF hits = {}
       THEN Respond(r, [NoResponse EXCEPT !.success = TRUE, !.status = 200, !.bill = r.bill])
       ELSE [r EXCEPT !.pc = "kv.get", !.k = CHOOSE k \in hits : \A j \in hits : k <= j]

\* POST /create-bill: await kv.set(`bill:${bill.billNumber}`, bill)
createBillSet(c) ==
    /\ reqs[c].endpoint = "create-bill" /\ reqs[c].pc = "kv.set"
    /\ kv' = [kv EXCEPT !.bills[reqs[c].bill.billNumber] = reqs[c].bill]
    /\ reqs' = [reqs EXCEPT ![c] = StockLoop(@, 1)]
    /\ UNCHANGED <<forms, printer>>

\* stockItem = await kv.get(`stock:${item.stockId}`), and the new quantity
createBillGetStock(c) ==
    /\ reqs[c].endpoint = "create-bill" /\ reqs[c].pc = "kv.get"
    /\ LET item == reqs[c].bill.items[reqs[c].k]
           stockItem == kv.stock[item.stockId]
       IN reqs' = [reqs EXCEPT ![c] =
                     IF stockItem.stored
                     THEN [@ EXCEPT !.pc = "kv.set stock",
                                    !.quantity = Max(0, stockItem.quantity - item.quantity)]
                     ELSE StockLoop(@, reqs[c].k + 1)]
    /\ UNCHANGED <<forms, kv, printer>>

\* await kv.set(`stock:${item.stockId}`, stock)
createBillSetStock(c) ==
    /\ reqs[c].endpoint = "create-bill" /\ reqs[c].pc = "kv.set stock"
    /\ kv' = [kv EXCEPT !.stock[reqs[c].bill.items[reqs[c].k].stockId] =
                            [stored |-> TRUE, quantity |-> reqs[c].quantity]]
    /\ reqs' = [reqs EXCEPT ![c] = StockLoop(@, reqs[c].k + 1)]
    /\ UNCHANGED <<forms, printer>>

\* The quantity of every stock item when the sessions start.
InitialQuantity == 5

\* The store before the first request: no counter, no bill, the stock.
NewStore ==
    [counter |-> 0,
     bills |-> [n \in BillNumbers |-> NoBill],
     stock |-> [s \in StockIds |-> [stored |-> TRUE, quantity |-> InitialQuantity]]]

(***************************************************************************)
(* The specifications                                                      *)
(***************************************************************************)
\* No receipt is looked at.
NoReceipt == [billData |-> << >>, commands |-> << >>]

Init ==
    /\ supported \in BOOLEAN
    /\ device = Null
    /\ characteristic = NullChar
    /\ connected = FALSE
    /\ link = [d \in GattDevices |-> FALSE]
    /\ listener = [d \in GattDevices |-> FALSE]
    /\ conn = NoConnect
    /\ jobs = [k \in Kinds |-> NoJob]
    /\ last = Step("new", << >>)
    /\ receipt = NoReceipt
    /\ forms = [c \in Clients |-> NewForm]
    /\ kv = NewStore
    /\ reqs = [c \in Clients |-> NoReq]

\* A print call is in flight.
Printing == \E kind \in Kinds : InFlight(jobs[kind])

\* No call of connect() or of a print operation is in flight.
Idle == ~Printing /\ conn.pc = "idle"

\* The schedules in which a print call and a connect() call do not overlap, and
\* neither do two print calls; disconnect() and the disconnect notification
\* run at any time.
Next ==
    \/ ~Printing /\ connect
    \/ ~Printing /\ RequestDeviceResolved
    \/ ~Printing /\ RequestDeviceRejected
    \/ ~Printing /\ GattConnectResolved
    \/ ~Printing /\ GattConnectRejected
    \/ ~Printing /\ GetPrimaryServiceResolved
    \/ ~Printing /\ GetPrimaryServiceRejected
    \/ ~Printing /\ GetCharacteristicResolved
    \/ ~Printing /\ GetCharacteristicRejected
    \/ ~Printing /\ AltRequestDeviceResolved
    \/ ~Printing /\ AltRequestDeviceRejected
    \/ ~Printing /\ AltGattConnectResolved
    \/ ~Printing /\ AltGattConnectRejected
    \/ ~Printing /\ AltGetPrimaryServicesResolved
    \/ ~Printing /\ AltGetPrimaryServicesRejected
    \/ ~Printing /\ AltGetCharacteristicsResolved
    \/ ~Printing /\ AltGetCharacteristicsRejected
    \/ disconnect
    \/ \E d \in GattDevices : gattserverdisconnected(d)
    \/ Idle /\ testPrint
    \/ Idle /\ printBill
    \/ \E kind \in Kinds : WriteResolved(kind)
    \/ \E kind \in Kinds : WriteRejected(kind)
    \/ \E kind \in Kinds : TimeoutElapsed(kind)

Spec == Init /\ [][Next]_vars

(***************************************************************************)
(* The callers: the Bluetooth Printer dialog of BillPreview, which holds   *)
(* the Print Invoice button and, through BluetoothPrinterManager, the      *)
(* Connect, Test Print and Disconnect buttons.                             *)
(***************************************************************************)
\* isPrinting of BillPreview: set before printBill is called, cleared in the
\* finally of handleBluetoothPrint.
isPrinting == InFlight(jobs["printBill"])

\* isTesting of BluetoothPrinterManager: set before testPrint is called, cleared
\* in the finally of handleTestPrint.
isTesting == InFlight(jobs["testPrint"])

\* handleBluetoothPrint: the Print Invoice button is disabled while isPrinting;
\* the handler returns early unless bluetoothPrinter.isConnected().
handleBluetoothPrint ==
    /\ ~isPrinting
    /\ isConnected
    /\ printBill

\* handleTestPrint: the Test Print button is disabled while isTesting.  It is
\* shown while the manager's own isConnected state is true, which the model does
\* not keep: pressed with no printer connected, testPrint rejects at once.
handleTestPrint ==
    /\ ~isTesting
    /\ testPrint

\* handleConnect, and the steps of the connect() call it awaits.
handleConnect ==
    \/ connect
    \/ RequestDeviceResolved
    \/ RequestDeviceRejected
    \/ GattConnectResolved
    \/ GattConnectRejected
    \/ GetPrimaryServiceResolved
    \/ GetPrimaryServiceRejected
    \/ GetCharacteristicResolved
    \/ GetCharacteristicRejected
    \/ AltRequestDeviceResolved
    \/ AltRequestDeviceRejected
    \/ AltGattConnectResolved
    \/ AltGattConnectRejected
    \/ AltGetPrimaryServicesResolved
    \/ AltGetPrimaryServicesRejected
    \/ AltGetCharacteristicsResolved
    \/ AltGetCharacteristicsRejected

\* handleDisconnect
handleDisconnect == disconnect

\* The dialog: the printer is connected and disconnected while nothing prints;
\* the two print buttons are governed by their own flags only.
CallersNext ==
    \/ ~Printing /\ handleConnect
    \/ ~Printing /\ handleDisconnect
    \/ ~Printing /\ \E d \in GattDevices : gattserverdisconnected(d)
    \/ conn.pc = "idle" /\ handleBluetoothPrint
    \/ conn.pc = "idle" /\ handleTestPrint
    \/ \E kind \in Kinds : WriteResolved(kind)
    \/ \E kind \in Kinds : WriteRejected(kind)
    \/ \E kind \in Kinds : TimeoutElapsed(kind)

CallersSpec == Init /\ [][CallersNext]_vars

(***************************************************************************)
(* A print call with the Connect and Disconnect buttons used while it is   *)
(* in flight: BluetoothPrinterManager disables neither while a print call  *)
(* runs.                                                                   *)
(***************************************************************************)
\* The standard printer is connected (by the service-scoped path of connect()).
RaceInit ==
    /\ supported = TRUE
    /\ device = "P1"
    /\ characteristic = Char("P1", 1, 2)
    /\ connected = TRUE
    /\ link = [d \in GattDevices |-> d = "P1"]
    /\ listener = [d \in GattDevices |-> d = "P1"]
    /\ conn = NoConnect
    /\ jobs = [k \in Kinds |-> NoJob]
    /\ last = Step("new", << >>)
    /\ receipt = NoReceipt
    /\ forms = [c \in Clients |-> NewForm]
    /\ kv = NewStore
    /\ reqs = [c \in Clients |-> NoReq]

\* The test print has not returned yet.
Racing == jobs["testPrint"].pc # "done"

\* Up to the return of one testPrint call: the steps of connect() and
\* disconnect() run at any time; testPrint is called with a printer connected
\* and no connect() in flight.
RaceNext ==
    \/ Racing /\ connect
    \/ Racing /\ RequestDeviceResolved
    \/ Racing /\ RequestDeviceRejected
    \/ Racing /\ GattConnectResolved
    \/ Racing /\ GattConnectRejected
    \/ Racing /\ GetPrimaryServiceResolved
    \/ Racing /\ GetPrimaryServiceRejected
    \/ Racing /\ GetCharacteristicResolved
    \/ Racing /\ GetCharacteristicRejected
    \/ Racing /\ AltRequestDeviceResolved
    \/ Racing /\ AltRequestDeviceRejected
    \/ Racing /\ AltGattConnectResolved
    \/ Racing /\ AltGattConnectRejected
    \/ Racing /\ AltGetPrimaryServicesResolved
    \/ Racing /\ AltGetPrimaryServicesRejected
    \/ Racing /\ AltGetCharacteristicsResolved
    \/ Racing /\ AltGetCharacteristicsRejected
    \/ Racing /\ disconnect
    \/ Racing /\ conn.pc = "idle" /\ isConnected /\ testPrint
    \/ Racing /\ WriteResolved("testPrint")
    \/ Racing /\ WriteRejected("testPrint")
    \/ Racing /\ TimeoutElapsed("testPrint")

RaceSpec == RaceInit /\ [][RaceNext]_vars

(***************************************************************************)
(* The service from an unexpected disconnect to the next connect() that    *)
(* succeeds.                                                               *)
(***************************************************************************)
\* The state right after the notification: the standard printer was connected
\* by the service-scoped path and has dropped the link; the listener has cleared
\* this.connected and this.characteristic, this.device is still stored.
DropInit ==
    /\ supported = TRUE
    /\ device = "P1"
    /\ characteristic = onDisconnected[1]
    /\ connected = onDisconnected[2]
    /\ link = [d \in GattDevices |-> FALSE]
    /\ listener = [d \in GattDevices |-> d = "P1"]
    /\ conn = NoConnect
    /\ jobs = [k \in Kinds |-> NoJob]
    /\ last = Step("gattserverdisconnected", << >>)
    /\ receipt = NoReceipt
    /\ forms = [c \in Clients |-> NewForm]
    /\ kv = NewStore
    /\ reqs = [c \in Clients |-> NoReq]

\* A connect() call has just returned true.
Reconnected == conn.pc = "idle" /\ conn.result = "true"

\* The schedules of Next, up to the first connect() that returns true.
DropNext ==
    \/ ~Reconnected /\ ~Printing /\ connect
    \/ ~Reconnected /\ ~Printing /\ RequestDeviceResolved
    \/ ~Reconnected /\ ~Printing /\ RequestDeviceRejected
    \/ ~Reconnected /\ ~Printing /\ GattConnectResolved
    \/ ~Reconnected /\ ~Printing /\ GattConnectRejected
    \/ ~Reconnected /\ ~Printing /\ GetPrimaryServiceResolved
    \/ ~Reconnected /\ ~Printing /\ GetPrimaryServiceRejected
    \/ ~Reconnected /\ ~Printing /\ GetCharacteristicResolved
    \/ ~Reconnected /\ ~Printing /\ GetCharacteristicRejected
    \/ ~Reconnected /\ ~Printing /\ AltRequestDeviceResolved
    \/ ~Reconnected /\ ~Printing /\ AltRequestDeviceRejected
    \/ ~Reconnected /\ ~Printing /\ AltGattConnectResolved
    \/ ~Reconnected /\ ~Printing /\ AltGattConnectRejected
    \/ ~Reconnected /\ ~Printing /\ AltGetPrimaryServicesResolved
    \/ ~Reconnected /\ ~Printing /\ AltGetPrimaryServicesRejected
    \/ ~Reconnected /\ ~Printing /\ AltGetCharacteristicsResolved
    \/ ~Reconnected /\ ~Printing /\ AltGetCharacteristicsRejected
    \/ ~Reconnected /\ disconnect
    \/ ~Reconnected /\ \E d \in GattDevices : gattserverdisconnected(d)
    \/ ~Reconnected /\ Idle /\ testPrint
    \/ ~Reconnected /\ Idle /\ printBill
    \/ ~Reconnected /\ \E kind \in Kinds : WriteResolved(kind)
    \/ ~Reconnected /\ \E kind \in Kinds : WriteRejected(kind)
    \/ ~Reconnected /\ \E kind \in Kinds : TimeoutElapsed(kind)

DropSpec == DropInit /\ [][DropNext]_vars


(***************************************************************************)
(* The receipt formatter on its own: printBill from its isConnected() test *)
(* to the end of the `commands` array, for a range of bills.               *)
(***************************************************************************)
\* Item names of 5, of exactly 12 and of 16 characters.
ItemNames ==
    {<<83, 117, 103, 97, 114>>,  \* 'Sugar'
     <<66, 97, 115, 109, 97, 116, 105, 32, 82, 105, 99, 101>>,  \* 'Basmati Rice'
     <<66, 97, 115, 109, 97, 116, 105, 32, 82, 105, 99, 101, 32, 53, 107, 103>>}  \* 'Basmati Rice 5kg'

\* The discount fields of an item of quantity 2 at 50.00, with the item total:
\* none; 10 % and its amount; Rs 5 and its amount; a discount value without an
\* amount; an amount without a discount value.
ItemDiscounts ==
    {[discountType |-> "", discountValue |-> 0, discountAmount |-> 0, total |-> 10000],
     [discountType |-> "percentage", discountValue |-> 10, discountAmount |-> 1000, total |-> 9000],
     [discountType |-> "fixed", discountValue |-> 5, discountAmount |-> 500, total |-> 9500],
     [discountType |-> "fixed", discountValue |-> 5, discountAmount |-> 0, total |-> 10000],
     [discountType |-> "", discountValue |-> 0, discountAmount |-> 500, total |-> 9500]}

FormatItems ==
    {[name |-> n, quantity |-> 2, rate |-> 5000, total |-> d.total,
      discountType |-> d.discountType, discountValue |-> d.discountValue,
      discountAmount |-> d.discountAmount] : n \in ItemNames, d \in ItemDiscounts}

\* The items of a bill: none, one or two.
FormatItemLists ==
    {<< >>} \cup {<<a>> : a \in FormatItems} \cup {<<a, b>> : a \in FormatItems, b \in FormatItems}

\* No customer, a short name, and a name longer than the paper is wide.
CustomerNames ==
    {<< >>,
     <<65, 115, 104, 97>>,  \* 'Asha'
     <<83, 114, 105, 32, 86, 101, 110, 107, 97, 116, 101, 115, 119, 97, 114, 97, 32, 84, 114, 97, 100, 101, 114, 115, 32, 97, 110, 100, 32, 67, 111, 109, 112, 97, 110, 121>>}  \* 'Sri Venkateswara Traders and Company'

\* The order-level discount fields: none, a percentage, a fixed amount, a
\* discount amount without a discount value, a discount value without an amount.
OrderDiscounts ==
    {[subtotal |-> 0, discountType |-> "", discountValue |-> 0, discountAmount |-> 0],
     [subtotal |-> 20000, discountType |-> "percentage", discountValue |-> 10, discountAmount |-> 2000],
     [subtotal |-> 20000, discountType |-> "fixed", discountValue |-> 50, discountAmount |-> 5000],
     [subtotal |-> 20000, discountType |-> "fixed", discountValue |-> 0, discountAmount |-> 2000],
     [subtotal |-> 20000, discountType |-> "percentage", discountValue |-> 10, discountAmount |-> 0]}

FormatNotes == {<< >>, <<79, 75>>}  \* '', 'OK'

\* No terms, and terms of two lines with a blank line between them.
FormatTerms == {<< >>, <<78, 111, 32, 114, 101, 116, 117, 114, 110, 115, 10, 10, 32, 32, 69, 38, 79, 69, 32, 32>>}  \* '', 'No returns\n\n  E&OE  '

FormatBills ==
    {[businessName |-> <<82, 97, 106, 32, 83, 116, 111, 114, 101>>,  \* 'Raj Store'
      address |-> << >>,
      phone |-> << >>,
      email |-> << >>,
      gst |-> << >>,
      billNumber |-> <<66, 73, 76, 76, 45, 50, 48, 50, 53, 45, 48, 48, 48, 50>>,  \* 'BILL-2025-0002'
      date |-> <<48, 50, 32, 74, 97, 110, 32, 50, 48, 50, 53, 44, 32, 48, 54, 58, 48, 53, 32, 112, 109>>,  \* '02 Jan 2025, 06:05 pm'
      customerName |-> c,
      sellerName |-> << >>,
      paymentMode |-> <<67, 97, 115, 104>>,  \* 'Cash'
      items |-> items,
      subtotal |-> d.subtotal,
      discountType |-> d.discountType,
      discountValue |-> d.discountValue,
      discountAmount |-> d.discountAmount,
      grandTotal |-> 18000,
      notes |-> n,
      termsAndConditions |-> terms] :
        c \in CustomerNames, items \in FormatItemLists, d \in OrderDiscounts,
        n \in FormatNotes, terms \in FormatTerms}

\* The service after a successful connect() to the standard printer, and a bill.
FormatInit ==
    /\ supported = TRUE
    /\ device = "P1"
    /\ characteristic = Char("P1", 1, 2)
    /\ connected = TRUE
    /\ link = [d \in GattDevices |-> d = "P1"]
    /\ listener = [d \in GattDevices |-> d = "P1"]
    /\ conn = NoConnect
    /\ jobs = [k \in Kinds |-> NoJob]
    /\ last = Step("new", << >>)
    /\ \E billData \in FormatBills : receipt = [billData |-> billData, commands |-> << >>]
    /\ forms = [c \in Clients |-> NewForm]
    /\ kv = NewStore
    /\ reqs = [c \in Clients |-> NoReq]

\* printBill(billData) from its isConnected() test to the end of `commands`.
buildCommands ==
    /\ isConnected
    /\ receipt.commands = << >>
    /\ receipt' = [receipt EXCEPT !.commands = billCommands(receipt.billData)]
    /\ UNCHANGED <<shop, supported, device, characteristic, connected, link, listener, conn, jobs, last>>

FormatNext == buildCommands

FormatSpec == FormatInit /\ [][FormatNext]_vars

(***************************************************************************)
(* One session filling in and saving bills, with a server whose store does *)
(* not fail.                                                               *)
(***************************************************************************)
\* What is typed into the bill number input: a suggested number, or a blank.
TypedBillNumbers == {billNumberFormat(2025, 1), <<Space>>}

\* What the number inputs of the item modal hold: quantities, and rates in paise.
TypedQuantities == {0, 1, 2}
TypedRates == {5000}

\* What the discount input holds: the input takes any number, its min and max
\* attributes are not enforced on typing.
TypedDiscountValues == {-5, 0, 10, 150}

\* The form is edited between two requests of the session.
Editing(c) == forms[c].pc = "idle"

BillNext ==
    \/ mount("A")
    \/ loadSuggestedBillNumberResolved("A")
    \/ Editing("A") /\ \E value \in TypedBillNumbers : handleBillNumberChange("A", value)
    \/ Editing("A") /\ \E quantity \in TypedQuantities, rate \in TypedRates :
                            handleSave("A", "S1", quantity, rate)
    \/ Editing("A") /\ \E k \in 1..MaxItems : removeItem("A", k)
    \/ Editing("A") /\ \E value \in {"fixed", "percentage"} : setDiscountType("A", value)
    \/ Editing("A") /\ \E value \in TypedDiscountValues : setDiscountValue("A", value)
    \/ handleSaveBill("A")
    \/ checkBillNumberUniqueResolved("A")
    \/ createBillResolved("A")
    \/ getNextBillNumberGet("A")
    \/ getNextBillNumberSet("A")
    \/ getBillGet("A")
    \/ createBillSet("A")
    \/ createBillGetStock("A")
    \/ createBillSetStock("A")

BillSpec == Init /\ [][BillNext]_vars

(***************************************************************************)
(* Two sessions ask for bill numbers: the requests of different sessions   *)
(* are handled concurrently, the steps of their handlers interleave at the *)
(* awaits.                                                                 *)
(***************************************************************************)
CounterNext ==
    \/ \E c \in Clients : mount(c)
    \/ \E c \in Clients : loadSuggestedBillNumberResolved(c)
    \/ \E c \in Clients : useSuggestedNumber(c)
    \/ \E c \in Clients : useSuggestedNumberResolved(c)
    \/ \E c \in Clients : getNextBillNumberGet(c)
    \/ \E c \in Clients : getNextBillNumberSet(c)

CounterSpec == Init /\ [][CounterNext]_vars

(***************************************************************************)
(* Two sessions each save one bill of items taken from the same stock      *)
(* item; the requests of different sessions are handled concurrently, and  *)
(* the store may fail to answer the uniqueness lookup.                     *)
(***************************************************************************)
SavedBillNumbers == {billNumberFormat(2025, 1), billNumberFormat(2025, 2)}
SavedQuantities == {1, 2}

\* The session has not saved its bill yet.
Unsaved(c) == forms[c].createdBill = NoBill

SaveNext ==
    \/ \E c \in Clients : mount(c)
    \/ \E c \in Clients : loadSuggestedBillNumberResolved(c)
    \/ \E c \in Clients :
          Editing(c) /\ Unsaved(c) /\ \E value \in SavedBillNumbers :
                                          handleBillNumberChange(c, value)
    \/ \E c \in Clients :
          Editing(c) /\ Unsaved(c) /\ \E quantity \in SavedQuantities :
                                          handleSave(c, "S1", quantity, 5000)
    \/ \E c \in Clients : Unsaved(c) /\ handleSaveBill(c)
    \/ \E c \in Clients : checkBillNumberUniqueResolved(c)
    \/ \E c \in Clients : createBillResolved(c)
    \/ \E c \in Clients : getNextBillNumberGet(c)
    \/ \E c \in Clients : getNextBillNumberSet(c)
    \/ \E c \in Clients : getBillGet(c)
    \/ \E c \in Clients : getBillFailed(c)
    \/ \E c \in Clients : createBillSet(c)
    \/ \E c \in Clients : createBillGetStock(c)
    \/ \E c \in Clients : createBillSetStock(c)

SaveSpec == Init /\ [][SaveNext]_vars

(***************************************************************************)
(* Properties                                                              *)
(***************************************************************************)
\* The chunks of a log of writes, concatenated in write order.
RECURSIVE Chunks(_)
Chunks(ws) == IF ws = << >> THEN << >> ELSE Head(ws).chunk \o Chunks(Tail(ws))

Done(kind) == jobs[kind].pc = "done"
AllWritten(job) == \A k \in DOMAIN job.writes : job.writes[k].status = "written"
SomeFailed(job) == \E k \in DOMAIN job.writes : job.writes[k].status = "failed"

\* C1: a print call (printBill or testPrint) whose writes all succeed and during
\* which the connection state does not change completes, and has issued exactly
\* ceil(L/20) writes for its buffer of L bytes, at offsets 0, 20, 40, ... in that
\* order, each of 1 to 20 bytes, whose concatenation in write order is the buffer.
C1_ChunkingLaw ==
    \A kind \in Kinds :
        LET job == jobs[kind]
            L == Len(job.data)
            n == Len(job.writes)
        IN (Done(kind) /\ job.wasConnected /\ job.stable /\ AllWritten(job)) =>
              /\ job.result = "ok"
              /\ n = (L + 19) \div 20
              /\ \A k \in 1..n :
                    /\ job.writes[k].offset = 20 * (k - 1)
                    /\ Len(job.writes[k].chunk) \in 1..20
                    /\ job.writes[k].char = characteristic
              /\ Chunks(job.writes) = job.data

\* C1 witness: a printBill call has completed with all writes successful on an
\* unchanged connection, for a receipt of 780 bytes (a multiple of 20) sent in 39 writes.
C1_Witness ==
    /\ Done("printBill") /\ jobs["printBill"].result = "ok" /\ jobs["printBill"].stable
    /\ Len(jobs["printBill"].data) = 780
    /\ Len(jobs["printBill"].writes) = 39

\* C2: printBill and testPrint called while isConnected() is false reject with
\* the not-connected error and issue no characteristic write.
C2_NotConnected ==
    \A kind \in Kinds :
        (jobs[kind].pc # "unused" /\ ~jobs[kind].wasConnected) =>
            /\ Done(kind)
            /\ jobs[kind].result = "Printer not connected"
            /\ jobs[kind].writes = << >>
            /\ last = Step(kind, << >>)

\* C2 witness: printBill was called while not connected, and has rejected.
C2_Witness ==
    /\ Done("printBill") /\ ~jobs["printBill"].wasConnected
    /\ ~isConnected

\* C3 (as claimed): when the peripheral the service is connected to fires a
\* disconnect notification, isConnected() is false afterwards, whichever path of
\* connect() made the connection.
C3_NotificationClears ==
    [][(/\ last'.op = "gattserverdisconnected"
        /\ isConnected
        /\ link[characteristic.dev] /\ ~link'[characteristic.dev])
       => ~isConnected']_vars

\* C4 (as claimed): when a chunk write of a print call fails, the failed write is
\* the last write of the call, no offset is written twice, and the call rejects
\* with the print-failed error, for printBill and for testPrint.
C4_PrintFailedError ==
    \A kind \in Kinds :
        LET job == jobs[kind] n == Len(job.writes) IN
        (Done(kind) /\ SomeFailed(job)) =>
            /\ job.writes[n].status = "failed"
            /\ \A k \in 1..n : job.writes[k].offset = 20 * (k - 1)
            /\ job.result = "Failed to print bill"

\* C4 (amended): when a chunk write of a print call fails, the failed write is the
\* last write of the call, every earlier write succeeded, no offset is written
\* twice, and the call rejects once: printBill with the print-failed error,
\* testPrint with the error of the failed write itself.
C4_AbortOnWriteError ==
    \A kind \in Kinds :
        LET job == jobs[kind] n == Len(job.writes) IN
        (jobs[kind].pc # "unused" /\ SomeFailed(job)) =>
            /\ Done(kind)
            /\ job.writes[n].status = "failed"
            /\ \A k \in 1..(n - 1) : job.writes[k].status = "written"
            /\ \A k \in 1..n : job.writes[k].offset = 20 * (k - 1)
            /\ job.result = IF kind = "printBill" THEN "Failed to print bill" ELSE "write error"

\* C4 witness: a testPrint call has rejected with the error of its third write,
\* after two successful writes.
C4_Witness ==
    /\ Done("testPrint") /\ jobs["testPrint"].result = "write error"
    /\ Len(jobs["testPrint"].writes) = 3
    /\ jobs["testPrint"].writes[2].status = "written"
    /\ jobs["testPrint"].writes[3].status = "failed"

C6_DisconnectIdempotent ==
    /\ [](ENABLED disconnect)
    /\ [][last'.op = "disconnect" =>
            /\ ~isConnected' /\ device' = Null /\ characteristic' = NullChar /\ ~connected'
            /\ (device = Null /\ characteristic = NullChar /\ ~connected) =>
                  /\ UNCHANGED <<device, characteristic, connected, link, listener>>
                  /\ last'.calls = << >>]_vars

\* C6 witness: disconnect() has just closed the link of a connected printer.
C6_Witness ==
    /\ last = Step("disconnect", <<"gatt.disconnect">>)
    /\ ~isConnected /\ device = Null /\ \A d \in GattDevices : ~link[d]

\* What the last step's operation has made of its call, if it has returned.
Outcome ==
    CASE last.op = "connect" -> IF conn.pc = "idle" THEN conn.result ELSE "pending"
      [] last.op \in Kinds -> IF Done(last.op) THEN jobs[last.op].result ELSE "pending"
      [] last.op = "disconnect" -> "ok"
      [] OTHER -> "none"

\* C7 (as claimed): when isSupported() is false, connect, disconnect, printBill
\* and testPrint each fail with the not-supported error, and make no call.
C7_AllNotSupported ==
    ~isSupported =>
        /\ last.calls = << >>
        /\ last.op \in {"connect", "disconnect", "printBill", "testPrint"} => Outcome = "NotSupported"

\* C7 (amended): when isSupported() is false, no operation makes a device or
\* Bluetooth call; connect() fails with the not-supported error, printBill and
\* testPrint fail with the not-connected error, and disconnect() completes.
C7_NotSupported ==
    ~isSupported =>
        /\ last.calls = << >>
        /\ last.op = "connect" => Outcome = "NotSupported"
        /\ last.op \in Kinds => Outcome = "Printer not connected"
        /\ last.op = "disconnect" => Outcome = "ok"
        /\ ~isConnected /\ device = Null /\ \A d \in GattDevices : ~link[d]

\* C7 witness: connect() has failed with the not-supported error.
C7_Witness ==
    /\ ~isSupported
    /\ last.op = "connect" /\ conn.pc = "idle" /\ conn.result = "NotSupported"

\* The first characteristic of a device, services first and characteristics
\* within a service, that advertises write or write-without-response.
FirstWritable(d) ==
    LET S == Profile(d).services
        hits == {c \in {Char(d, s, i) : s \in 1..Len(S), i \in 1..3} :
                    /\ c.idx <= Len(S[c.svc].chars)
                    /\ CharProps(c).write \/ CharProps(c).writeWithoutResponse}
    IN IF hits = {} THEN NullChar
       ELSE CHOOSE c \in hits : \A x \in hits : c.svc < x.svc \/ (c.svc = x.svc /\ c.idx <= x.idx)

\* C8 (as claimed): whenever the scoped attempt of connect() has failed, the call
\* has performed the unfiltered discovery, and a connection it then makes is to
\* the first writable characteristic of the device in enumeration order.
C8_FallbackDiscovers ==
    conn.failedAt # "none" =>
        /\ conn.unfiltered
        /\ (conn.pc = "idle" /\ conn.result = "true") => characteristic = FirstWritable(conn.server)

\* C9 (as claimed): a connect() call in which the user dismissed the chooser
\* without selecting a device does not report success but rejects with a
\* connection error, and a call that reports success has found a writable
\* characteristic.
C9_CancelRejects ==
    (conn.pc = "idle" /\ conn.result # "none") =>
        /\ (conn.cancelled /\ ~conn.chosen) => conn.result \in {"Failed", "Error"}
        /\ conn.result = "true" =>
              /\ characteristic # NullChar
              /\ CharProps(characteristic).write \/ CharProps(characteristic).writeWithoutResponse

\* C10 (as claimed): when no connect() is in flight, at most one peripheral has
\* an open link.
C10_OneLink ==
    conn.pc = "idle" => Cardinality({d \in GattDevices : link[d]}) <= 1


\* C11 (as claimed): in every state, a connect() in flight or not, isConnected()
\* is true only if a device is stored and the stored characteristic is one that
\* advertises write or write-without-response.
C11_ConnectedHasDevice ==
    isConnected =>
        /\ device # Null
        /\ characteristic # NullChar
        /\ CharProps(characteristic).write \/ CharProps(characteristic).writeWithoutResponse

\* C12 (as claimed): when no connect() is in flight and isConnected() is false,
\* getDeviceName() returns null.
C12_NoNameUnlessConnected ==
    (conn.pc = "idle" /\ ~isConnected) => getDeviceName = Null


\* The number of writes of a print call that have resolved.
WrittenCount(job) == Cardinality({k \in DOMAIN job.writes : job.writes[k].status = "written"})

\* The peripheral a print call in flight writes to.
Target(job) == job.writes[1].char.dev

C15_RetryOnLoss ==
    \A kind \in Kinds :
        LET job == jobs[kind] n == Len(job.writes) IN
        (Done(kind) /\ n > 0 /\ ~link[Target(job)]) =>
            \A k \in 1..n : job.writes[k].status = "failed" =>
                \E m \in (k + 1)..n : job.writes[m].offset = job.writes[k].offset


\* C14 (as claimed): through the Print Invoice and Test Print buttons, a
\* printBill call and a testPrint call are never in flight at the same time.
C14_CallersSerialize ==
    ~(InFlight(jobs["printBill"]) /\ InFlight(jobs["testPrint"]))


\* A receipt has been built.
Built == receipt.commands # << >>

\* How many entries of a `commands` array are of a kind.
Count(cs, kind) == Cardinality({k \in DOMAIN cs : cs[k].kind = kind})

\* The position of the only entry of a kind.
IndexOf(cs, kind) == CHOOSE k \in DOMAIN cs : cs[k].kind = kind

\* The entries pushed between the items header (header, line feed, separator,
\* bold off) and the separator before the totals: what the item loop pushed.
ItemsRegion(cs) ==
    LET first == IndexOf(cs, "itemsHeader") + 4
        stop == CHOOSE k \in first..Len(cs) :
                    /\ cs[k].kind = "separator"
                    /\ \A j \in first..(k - 1) : cs[j].kind # "separator"
    IN SubSeq(cs, first, stop - 1)

KindsOf(cs) == [k \in DOMAIN cs |-> cs[k].kind]

\* t begins with p
IsPrefix(p, t) == Len(p) <= Len(t) /\ SubSeq(t, 1, Len(p)) = p

\* The number of characters a UTF-8 byte sequence encodes.
CharCount(bytes) == Cardinality({k \in DOMAIN bytes : bytes[k] < 128 \/ bytes[k] >= 192})

\* C16: for a bill of N items none of which has a discount value (zero or
\* absent), the item loop of printBill pushes exactly N lines, all of them item
\* lines, and the receipt has no discount-annotation and no after-discount line.
C16_NoDiscountLines ==
    LET items == receipt.billData.items
        cs == receipt.commands
    IN (Built /\ \A k \in DOMAIN items : items[k].discountValue = 0) =>
          /\ Count(ItemsRegion(cs), "lf") = Len(items)
          /\ KindsOf(ItemsRegion(cs)) = [k \in 1..(2 * Len(items)) |-> IF k % 2 = 1 THEN "item" ELSE "lf"]
          /\ Count(cs, "item") = Len(items)
          /\ Count(cs, "itemDiscount") = 0
          /\ Count(cs, "afterDiscount") = 0

\* C16 witness: the receipt of a bill of two items without discount value, one
\* of which carries a discount amount all the same.
C16_Witness ==
    /\ Built
    /\ Len(receipt.billData.items) = 2
    /\ \A k \in 1..2 : receipt.billData.items[k].discountValue = 0
    /\ receipt.billData.items[1].discountAmount > 0

\* What the item loop pushes, item by item: the item line, and for a flagged
\* item the discount annotation, bold on, the after-discount line, bold off.
RECURSIVE ExpectedKinds(_)
ExpectedKinds(flags) ==
    IF flags = << >> THEN << >>
    ELSE <<"item", "lf">>
         \o (IF Head(flags) THEN <<"itemDiscount", "lf", "cmd", "afterDiscount", "lf", "cmd">> ELSE << >>)
         \o ExpectedKinds(Tail(flags))

\* The two extra lines are what they should be: an annotation starting with
\* '  Discount:', and an after-discount line starting with '  After Discount:'
\* between the commands bold on and bold off.
DiscountLinesWellFormed(r) ==
    \A k \in DOMAIN r :
        /\ r[k].kind = "itemDiscount" => IsPrefix(<<32, 32, 68, 105, 115, 99, 111, 117, 110, 116, 58>>, r[k].bytes)
        /\ r[k].kind = "afterDiscount" =>
              /\ IsPrefix(<<32, 32, 65, 102, 116, 101, 114, 32, 68, 105, 115, 99, 111, 117, 110, 116, 58>>, r[k].bytes)
              /\ r[k - 1].bytes = <<27, 69, 1>>
              /\ r[k + 2].bytes = <<27, 69, 0>>

\* C17 (as claimed): exactly the items with a positive discount amount are
\* followed by the two extra lines, the discount annotation and the bolded
\* after-discount total.
C17_ByDiscountAmount ==
    LET items == receipt.billData.items
        r == ItemsRegion(receipt.commands)
    IN Built =>
          /\ KindsOf(r) = ExpectedKinds([k \in DOMAIN items |-> items[k].discountAmount > 0])
          /\ DiscountLinesWellFormed(r)

\* C17 (amended): exactly the items with a positive discount value are followed
\* by the two extra lines, the discount annotation and the bolded after-discount
\* total, whatever their discount amount.
C17_ByDiscountValue ==
    LET items == receipt.billData.items
        r == ItemsRegion(receipt.commands)
    IN Built =>
          /\ KindsOf(r) = ExpectedKinds([k \in DOMAIN items |-> items[k].discountValue > 0])
          /\ DiscountLinesWellFormed(r)

\* C17 witness: the receipt of a bill whose first item has a discount value but
\* no discount amount, and whose second item has a discount amount but no
\* discount value.
C17_Witness ==
    /\ Built
    /\ Len(receipt.billData.items) = 2
    /\ receipt.billData.items[1].discountValue > 0 /\ receipt.billData.items[1].discountAmount = 0
    /\ receipt.billData.items[2].discountValue = 0 /\ receipt.billData.items[2].discountAmount > 0
    /\ Count(receipt.commands, "afterDiscount") = 1

\* The label and value pairs printBill hands to formatLine for a bill.
TwoColumnPairs(billData) ==
    {<<TextBillNo, billData.billNumber>>, <<TextDate, billData.date>>}
    \cup (IF billData.customerName # << >> THEN {<<TextCustomer, billData.customerName>>} ELSE {})
    \cup (IF billData.sellerName # << >> THEN {<<TextSeller, billData.sellerName>>} ELSE {})
    \cup (IF billData.paymentMode # << >> THEN {<<TextPayment, billData.paymentMode>>} ELSE {})

\* C18 (as claimed): every two-column line of a receipt is at most 32 characters
\* long, and is exactly 32 long, the value ending at column 32, when label and
\* value fit without truncating the label.
C18_TwoColumnWidth ==
    Built =>
        /\ \A k \in DOMAIN receipt.commands :
              receipt.commands[k].kind \in {"detail", "afterDiscount", "subtotal", "discount"} =>
                  CharCount(receipt.commands[k].bytes) <= 32
        /\ \A p \in TwoColumnPairs(receipt.billData) :
              /\ Len(formatLine(p[1], p[2])) <= 32
              /\ Len(p[1]) + 1 + Len(p[2]) <= 32 =>
                    /\ Len(formatLine(p[1], p[2])) = 32
                    /\ IsPrefix(p[1], formatLine(p[1], p[2]))
                    /\ SubSeq(formatLine(p[1], p[2]), 33 - Len(p[2]), 32) = p[2]

\* C19: every receipt has exactly one grand total line, 'Total: Rs.' and the
\* grand total, and it comes after the one totals separator, whether or not the
\* bill has an order discount, notes or terms.
C19_GrandTotalOnce ==
    LET cs == receipt.commands IN
    Built =>
        /\ Count(cs, "grandTotal") = 1
        /\ Count(cs, "totalSeparator") = 1
        /\ IndexOf(cs, "totalSeparator") < IndexOf(cs, "grandTotal")
        /\ cs[IndexOf(cs, "grandTotal")].bytes =
              <<84, 111, 116, 97, 108, 58, 32, 82, 115, 46, 49, 56, 48, 46, 48, 48>>
        /\ cs[IndexOf(cs, "grandTotal") + 1].kind = "lf"
        /\ \A k \in DOMAIN cs :
              IsPrefix(<<84, 111, 116, 97, 108, 58>>, cs[k].bytes) => k = IndexOf(cs, "grandTotal")

\* C19 witness: the receipt of a bill with an order discount, notes and terms.
C19_Witness ==
    /\ Built
    /\ Count(receipt.commands, "discount") = 1
    /\ Count(receipt.commands, "notes") = 1
    /\ Count(receipt.commands, "terms") = 2

\* The item lines of a receipt, in order.
ItemLines(cs) == SelectSeq(cs, LAMBDA c : c.kind = "item")

\* C20 (as claimed): on its item line (the name field, then 3 + 7 + 8 columns
\* for quantity, rate and amount) a name of exactly 12 characters is printed
\* unchanged, and a longer name as its first 12 characters and one truncation
\* marker character: the name field is never wider than 13 characters.
C20_NameField ==
    LET items == receipt.billData.items
        lines == ItemLines(receipt.commands)
    IN Built =>
          \A k \in DOMAIN items :
              LET name == items[k].name line == lines[k].bytes IN
              /\ Len(name) >= 12 => SubSeq(line, 1, 12) = SubSeq(name, 1, 12)
              /\ Len(name) = 12 => CharCount(line) - 18 = 12
              /\ Len(name) > 12 => CharCount(line) - 18 = 13


\* The entries of a `commands` array from the subtotal line to the totals
\* separator: the totals block before the grand total.
TotalsRegion(cs) == SubSeq(cs, IndexOf(cs, "subtotal"), IndexOf(cs, "totalSeparator"))

\* C21 (as claimed): the totals block of a receipt has the order-level discount
\* line exactly when the discount amount of the bill is positive.
C21_DiscountLineByAmount ==
    Built =>
        (Count(TotalsRegion(receipt.commands), "discount") = 1
            <=> receipt.billData.discountAmount > 0)

\* C21 (amended): the totals block of a receipt has the order-level discount
\* line, once, between the subtotal line and the totals separator, exactly when
\* the discount value of the bill is positive and its discount amount is not
\* zero; the line is formatLine of the label with the type and value and of
\* '- Rs.' with the amount.
C21_DiscountLineByValue ==
    LET cs == receipt.commands
        b == receipt.billData
        r == TotalsRegion(cs)
    IN Built =>
          /\ Count(cs, "discount") = Count(r, "discount")
          /\ Count(r, "discount") = IF b.discountValue > 0 /\ b.discountAmount # 0 THEN 1 ELSE 0
          /\ KindsOf(r) = IF b.discountValue > 0 /\ b.discountAmount # 0
                          THEN <<"subtotal", "lf", "discount", "lf", "totalSeparator">>
                          ELSE <<"subtotal", "lf", "totalSeparator">>
          /\ \A k \in DOMAIN r :
                r[k].kind = "discount" =>
                    /\ IsPrefix(<<68, 105, 115, 99, 111, 117, 110, 116, 32, 40>>, r[k].bytes)
                    /\ Len(r[k].bytes) = 32
                    /\ SubSeq(r[k].bytes, 33 - Len(toFixed2(b.discountAmount)), 32) = toFixed2(b.discountAmount)

\* C21 witness: the receipt of a bill with a positive discount amount and no
\* discount value: it has no discount line.
C21_Witness ==
    /\ Built
    /\ receipt.billData.discountAmount > 0
    /\ receipt.billData.discountValue = 0
    /\ Count(receipt.commands, "discount") = 0


\* The bills of the shop: the ones in the store, and the ones the sessions show
\* as created.
SavedBills ==
    {kv.bills[n] : n \in BillNumbers} \cup {forms[c].createdBill : c \in Clients}

\* C22 (as claimed): every bill built and saved by CreateBill has
\* grandTotal = max(0, subtotal - discountAmount), an absent discount amount
\* counting as 0, and every item's total equals quantity x rate.
C22_BillArithmetic ==
    \A bill \in SavedBills \ {NoBill} :
        /\ bill.grandTotal = Max(0, bill.subtotal - bill.discountAmount)
        /\ \A k \in DOMAIN bill.items :
              bill.items[k].total = bill.items[k].quantity * bill.items[k].rate


\* C23 (as claimed): after an unexpected disconnect notification, isConnected()
\* is false until a connect() call succeeds: up to the return of the first
\* connect() that returns true, isConnected() is false.
C23_NoReconnect ==
    isConnected => Reconnected


\* C24 (as claimed): every item line of a receipt (the name, quantity, rate and
\* amount columns) is between 30 and 32 characters wide.
C24_ItemLineWidth ==
    Built =>
        \A k \in DOMAIN receipt.commands :
            receipt.commands[k].kind = "item" =>
                /\ CharCount(receipt.commands[k].bytes) >= 30
                /\ CharCount(receipt.commands[k].bytes) <= 32


\* C25 (as claimed): all chunk writes of one print call go to the characteristic
\* its first chunk went to, the one connected when the call started, whatever
\* calls of disconnect() and connect() are made while it is in flight.
C25_OneCharacteristicPerJob ==
    \A kind \in Kinds :
        \A k \in DOMAIN jobs[kind].writes :
            jobs[kind].writes[k].char = jobs[kind].writes[1].char


\* C26 (as claimed): a disconnect notification from a peripheral other than the
\* one the service is connected to does not clear the current connection:
\* isConnected() stays true.
C26_StaleNotificationIgnored ==
    [][\A d \in GattDevices :
          (/\ isConnected
           /\ characteristic.dev # d
           /\ link[d] /\ ~link'[d]
           /\ last'.op = "gattserverdisconnected")
          => isConnected']_vars

\* C27 (as claimed): between operations, whenever isConnected() is true the
\* stored characteristic belongs to the stored device.
C27_CharacteristicOfDevice ==
    (conn.pc = "idle" /\ isConnected) => characteristic.dev = device


\* The bill numbers returned so far to session c by get-next-bill-number: the
\* ones the form has received and the one of a response on its way.
Returned(c) ==
    forms[c].suggestions \o
    (IF reqs[c].endpoint = "get-next-bill-number" /\ reqs[c].pc = "responded"
     THEN <<reqs[c].response.billNumber>>
     ELSE << >>)

\* C28 (as claimed): any two completed get-next-bill-number requests have
\* returned different bill numbers, and after k completed requests the stored
\* counter has increased by exactly k (it starts at 0).
C28_DistinctBillNumbers ==
    LET all == Returned("A") \o Returned("B")
    IN /\ \A i, j \in DOMAIN all : i # j => all[i] # all[j]
       /\ kv.counter = Len(all)


\* The bill of the create-bill request of session c that has completed, if any:
\* the one of a response on its way, or the one the form has received.
CompletedBill(c) ==
    IF reqs[c].endpoint = "create-bill" /\ reqs[c].pc = "responded" /\ reqs[c].response.success
    THEN reqs[c].bill
    ELSE forms[c].createdBill

\* A create-bill request of session c is being handled.
CreateBillInFlight(c) == reqs[c].endpoint = "create-bill" /\ reqs[c].pc # "responded"

\* The quantity the items of a bill take from a stock item.
RECURSIVE BilledQuantity(_, _)
BilledQuantity(items, stockId) ==
    IF items = << >> THEN 0
    ELSE (IF Head(items).stockId = stockId THEN Head(items).quantity ELSE 0)
         + BilledQuantity(Tail(items), stockId)

\* C29 (as claimed): a stock quantity is never negative, and once the
\* create-bill requests have completed the quantity of each stock item is
\* max(0, initial quantity - sum of the billed quantities).
C29_StockAccounting ==
    \A stockId \in StockIds :
        /\ kv.stock[stockId].quantity >= 0
        /\ (\A c \in Clients : ~CreateBillInFlight(c))
           => kv.stock[stockId].quantity =
                Max(0, InitialQuantity
                       - BilledQuantity(CompletedBill("A").items, stockId)
                       - BilledQuantity(CompletedBill("B").items, stockId))

\* C30 (as claimed): no step replaces a bill that is stored under a bill number:
\* a save under a number that is taken is rejected and leaves the stored bill
\* unchanged.
C30_StoredBillKept ==
    [][\A n \in BillNumbers : kv.bills[n] # NoBill => kv.bills'[n] = kv.bills[n]]_vars

=============================================================================
